---------------------------- MODULE Spec2Model ----------------------------
(*
 * A state-machine model of the leancrypto runtime core:
 *   - the hash-based Encrypt-then-MAC AEAD (lc_hash_crypt),
 *   - the Keccak sponge glue (absorb / squeeze),
 *   - the fast-key-erasure DRNGs (KMAC-DRNG, XDRBG),
 *   - the algorithm-status gate (power-on self-tests),
 *   - the CPU feature detector,
 *   - the ML-DSA entry points that choose a back-end from the CPU features,
 *   - the ChaCha20 DRNG,
 *   - the constant-time conditional move,
 *   - the memory provider and the heap constructors built on it.
 *
 * Each subsystem has its own specification (SpecAead, SpecSponge, SpecDrng,
 * SpecCc20, SpecGate, SpecCpu, SpecDisp, SpecCmov, SpecAlloc) over the shared
 * variables; the variables of the other subsystems stay at their initial
 * value.
 *
 * Cryptographic primitives are idealised: the keystream generator is a small
 * deterministic arithmetic function of (seed history, request counter, byte
 * index), a MAC digest byte is the symbolic term <<"mac", key, msg, i>> (two
 * digests agree exactly when key and message agree), an XOF / KMAC output is
 * the symbolic term of everything that was absorbed.
 *)
EXTENDS Integers, Sequences, FiniteSets, TLC

VARIABLES
    \* ---- algorithm-status registry (process-wide)
    alg_status,     \* id -> "unset" | "running" | "passed" | "failed"
    kat_ok,         \* id -> BOOLEAN: does the known-answer test of id match
    kat_runs,       \* id -> number of times the vectors were executed
    \* ---- hash AEAD instance and its caller
    hc,             \* struct lc_hc_cryptor
    mem,            \* caller memory: cells a, b, aad, tag (+ calctag scratch)
    ain,            \* the caller's inputs of this run
    apc,            \* position of the caller
    aret,           \* return code of the last call
    aoff,           \* streaming offsets [aad, data]
    atamper,        \* the modification made on the wire: <<cell, byte, bit, how>>,
                    \* or "none"
    aprev,          \* [hc, mem, pc] before the last re-key / one-shot decrypt / dec_final
    \* ---- Keccak sponge instance and its caller
    sp,             \* struct lc_sha3_*_state: state, r, padding, msg_len, ...
    sprev,          \* the instance as it was before the last call
    slast,          \* the last call: [op, n]
    sout,           \* all bytes delivered by squeeze calls so far
    twin,           \* [ctx, out]: the same calls without the n = 0 squeezes
    sops,           \* number of calls made
    srun,           \* [msg, chunks, nsq, base, out, parts]: bytes and chunk lengths
                    \* absorbed, squeeze calls made; instance after the last update,
                    \* bytes and lengths of the squeeze calls since
    \* ---- fast-key-erasure DRNG instance and its caller
    rng,            \* the DRNG state: kind, key / V, initially_seeded
    dinit,          \* return codes of the lc_kmac_init / lc_hash_init calls the
                    \* last call made, in call order
    dlog,           \* events of the last generate call, in program order
    dout,           \* chunks released since the last zero: [by, bytes]
    dret,           \* return code of the last call
    dops,           \* number of calls made
    dprev,          \* the DRNG state as it was before the last call
    dlast,          \* the last call: [op, fn, ptr, sd, alpha, outlen, written, end, deref]
    dtwin,          \* [state, out, wiped]: a new instance given the calls made since
                    \* zero, and the state the last zero wiped
    \* ---- threads calling gated entry points
    th,             \* thread -> [pc, op, n]
    glog,           \* outputs produced: [op, id, st]: st = status when written
    gcalls,         \* id -> number of gated calls that returned success
    tested,         \* [val, done]: the static int tested of
                    \* sha3_224_riscv_asm_rvv_init, and whether its vectors have
                    \* been executed to the end
    \* ---- CPU feature detector
    features,       \* the process-wide feature word, a set of feature bits
    hwcap,          \* the features the id register of this CPU reports
    cth,            \* thread -> [pc, isar, n, tmp, st]
    crets,          \* values returned by lc_cpu_feature_available
    cforced,        \* values stored through the test-only API
    \* ---- one ML-DSA signing operation through the dispatching entry points
    mld,            \* [pc, sel, impls, ret, n, ops]: position, back-end selected by
                    \* the first call, back-end that served each call
    \* ---- side-channel helpers and the memory provider
    cm,             \* the last cmov call: [pc, r0, x, b, blocker, r]
    heap            \* allocator: [have_memfd, blocks, fds, rel, last, ops, ub]

avars == <<hc, mem, ain, apc, aret, aoff, atamper, aprev>>
gvars == <<alg_status, kat_ok, kat_runs>>
svars == <<sp, sprev, slast, sout, twin, sops, srun>>
dvars == <<rng, dinit, dlog, dout, dret, dops, dprev, dlast, dtwin>>
vars == <<alg_status, kat_ok, kat_runs, hc, mem, ain, apc, aret, aoff, atamper,
          aprev,
          sp, sprev, slast, sout, twin, sops, srun,
          rng, dinit, dlog, dout, dret, dops, dprev, dlast, dtwin,
          th, glog, gcalls, tested,
          features, hwcap, cth, crets, cforced, mld, cm, heap>>
tvars == <<th, glog, gcalls, tested>>
cvars == <<features, hwcap, cth, crets, cforced>>
xvars == <<mld>>
mvars == <<cm, heap>>

\* the variables outside one subsystem
notA == <<svars, dvars, tvars, cvars, xvars, mvars>>
notS == <<gvars, avars, dvars, tvars, cvars, xvars, mvars>>
notD == <<gvars, avars, svars, tvars, cvars, xvars, mvars>>
notT == <<avars, svars, dvars, cvars, xvars, mvars>>
notC == <<gvars, avars, svars, dvars, tvars, xvars, mvars>>
notX == <<avars, svars, dvars, tvars, mvars>>
notM == <<gvars, avars, svars, dvars, tvars, cvars, xvars>>
\* outside the DRNG and the status registry its seed entry points go through
notDG == <<kat_ok, avars, svars, tvars, cvars, xvars, mvars>>

-----------------------------------------------------------------------------
(* errno values returned (negated) by the library *)
EINVAL == 22
EBADMSG == 74
EOPNOTSUPP == 95

EPERM == 1
EAGAIN == 11
ENOMEM == 12

(* algorithm ids of the status registry *)
AlgIds == {"HASH_CRYPT", "KMAC_DRBG", "CHACHA20_DRNG", "MLDSA_SIGGEN", "X25519_KEYGEN",
           "SHA3"}

-----------------------------------------------------------------------------
(* generic helpers *)

min_size(a, b) == IF a < b THEN a ELSE b

RECURSIVE XorByte(_, _)
XorByte(a, b) ==
    IF a = 0 /\ b = 0 THEN 0
    ELSE (((a % 2) + (b % 2)) % 2) + 2 * XorByte(a \div 2, b \div 2)

RECURSIVE Pow2(_)
Pow2(n) == IF n = 0 THEN 1 ELSE 2 * Pow2(n - 1)

RECURSIVE SumSeq(_)
SumSeq(s) == IF s = <<>> THEN 0 ELSE Head(s) + 7 * SumSeq(Tail(s))

Fill(n, v) == [i \in 1..n |-> v]

\* overwrite bytes off+1 .. off+Len(bytes) of buffer buf
WriteBytes(buf, off, bytes) ==
    [i \in 1..Len(buf) |->
        IF i > off /\ i <= off + Len(bytes) THEN bytes[i - off] ELSE buf[i]]

ReadBytes(buf, off, n) == SubSeq(buf, off + 1, off + n)

-----------------------------------------------------------------------------
(* ======================= hash-based AEAD (lc_hash_crypt) =============== *)

\* LC_SHA_MAX_SIZE_DIGEST: size of calctag and of the MAC key
LC_SHA_MAX_SIZE_DIGEST == 64

\* size of the keystream buffer of struct lc_hc_cryptor
LC_HC_KEYSTREAM_BLOCK == 64

\* ---- keystream generator (lc_rng_seed / lc_rng_generate / lc_rng_zero on
\* ---- the hash DRBG embedded in the cryptor)
DrbgZero == [seeded |-> FALSE, hist |-> <<>>, ctr |-> 0]

KsByte(hist, ctr, i) == (SumSeq(hist) + 29 * ctr + 13 * i + 1) % 256

lc_rng_seed(drbg, key, iv) ==
    [seeded |-> TRUE,
     hist |-> (IF drbg.seeded THEN drbg.hist ELSE <<>>) \o <<Len(key)>> \o key
              \o <<Len(iv)>> \o iv,
     ctr |-> 0]

\* generate len bytes; an unseeded generator produces nothing and fails
lc_rng_generate(drbg, len) ==
    IF ~drbg.seeded
    THEN [ret |-> 0 - EOPNOTSUPP, out |-> <<>>, drbg |-> drbg]
    ELSE [ret |-> 0,
          out |-> [i \in 1..len |-> KsByte(drbg.hist, drbg.ctr, i)],
          drbg |-> [drbg EXCEPT !.ctr = @ + 1]]

\* ---- HMAC (lc_hmac_init / lc_hmac_update / lc_hmac_final)
HmacZero == [key |-> <<>>, msg |-> <<>>]

lc_hmac_init(key) == [key |-> key, msg |-> <<>>]

lc_hmac_update(auth, data) == [auth EXCEPT !.msg = @ \o data]

\* the digest: dsize symbolic bytes, each determined by (key, message, index)
lc_hmac_final(auth, dsize) == [i \in 1..dsize |-> <<"mac", auth.key, auth.msg, i>>]

\* lc_memcmp_secure: 0 when the two ranges are equal
lc_memcmp_secure(s1, s2) == IF s1 = s2 THEN 0 ELSE 1

\* ---- the cryptor
HcZero(dsize) ==
    [drbg |-> DrbgZero, auth |-> HmacZero,
     keystream |-> Fill(LC_HC_KEYSTREAM_BLOCK, 0), keystream_ptr |-> 0,
     dsize |-> dsize]

\* lc_hc_get_tagsize: digest size of the hash the instance was built with
lc_hc_get_tagsize(h) == h.dsize

\* pointers are [c |-> cell of mem, o |-> offset]
Ptr(c, o) == [c |-> c, o |-> o]
Adv(p, n) == [p EXCEPT !.o = @ + n]

memcpy(m, dst, src, n) ==
    [m EXCEPT ![dst.c] = WriteBytes(@, dst.o, ReadBytes(m[src.c], src.o, n))]

\* xor_64(out, keystream + ptr, n): out[i] ^= keystream[ptr + i]
xor_64(m, out, ks, ptr, n) ==
    [m EXCEPT ![out.c] =
        WriteBytes(@, out.o,
                   [i \in 1..n |-> XorByte(m[out.c][out.o + i], ks[ptr + i])])]

\* lc_hc_setkey_nocheck; S is [hc, mem, ret]
lc_hc_setkey_nocheck(S, key, iv) ==
    IF Len(key) = 0 THEN [S EXCEPT !.ret = 0 - EINVAL]
    ELSE LET d1 == lc_rng_seed(S.hc.drbg, key, iv)
             g1 == lc_rng_generate(d1, LC_SHA_MAX_SIZE_DIGEST)
             ks1 == WriteBytes(S.hc.keystream, 0, g1.out)
             a1 == lc_hmac_init(ReadBytes(ks1, 0, LC_SHA_MAX_SIZE_DIGEST))
             g2 == lc_rng_generate(g1.drbg, LC_HC_KEYSTREAM_BLOCK)
         IN  IF g1.ret # 0
             THEN [S EXCEPT !.hc.drbg = d1, !.ret = g1.ret]
             ELSE IF g2.ret # 0
             THEN [S EXCEPT !.hc.drbg = g1.drbg, !.hc.keystream = ks1,
                            !.hc.auth = a1, !.ret = g2.ret]
             ELSE [S EXCEPT !.hc.drbg = g2.drbg, !.hc.keystream = g2.out,
                            !.hc.auth = a1, !.hc.keystream_ptr = 0, !.ret = 0]

\* lc_hc_crypt that forgets to advance keystream_ptr after a chunk
RECURSIVE lc_hc_crypt_noadvance(_, _, _, _)
lc_hc_crypt_noadvance(S, in, out, len) ==
    IF len = 0 THEN S
    ELSE LET need == S.hc.keystream_ptr >= LC_HC_KEYSTREAM_BLOCK
             g == lc_rng_generate(S.hc.drbg, LC_HC_KEYSTREAM_BLOCK)
         IN  IF need /\ g.ret # 0 THEN S
             ELSE LET h1 == IF need
                            THEN [S.hc EXCEPT !.drbg = g.drbg, !.keystream = g.out,
                                              !.keystream_ptr = 0]
                            ELSE S.hc
                      todo == min_size(min_size(len, LC_HC_KEYSTREAM_BLOCK),
                                       LC_HC_KEYSTREAM_BLOCK - h1.keystream_ptr)
                      m1 == IF in # out THEN memcpy(S.mem, out, in, todo) ELSE S.mem
                      m2 == xor_64(m1, out, h1.keystream, h1.keystream_ptr, todo)
                  IN  lc_hc_crypt_noadvance([S EXCEPT !.hc = h1, !.mem = m2],
                                            Adv(in, todo), Adv(out, todo), len - todo)

\* lc_hc_crypt that rewinds to the start of the keystream buffer without
\* filling it again
RECURSIVE lc_hc_crypt_stale_block(_, _, _, _)
lc_hc_crypt_stale_block(S, in, out, len) ==
    IF len = 0 THEN S
    ELSE LET need == S.hc.keystream_ptr >= LC_HC_KEYSTREAM_BLOCK
             h1 == IF need THEN [S.hc EXCEPT !.keystream_ptr = 0] ELSE S.hc
             todo == min_size(min_size(len, LC_HC_KEYSTREAM_BLOCK),
                              LC_HC_KEYSTREAM_BLOCK - h1.keystream_ptr)
             m1 == IF in # out THEN memcpy(S.mem, out, in, todo) ELSE S.mem
             m2 == xor_64(m1, out, h1.keystream, h1.keystream_ptr, todo)
         IN  lc_hc_crypt_stale_block(
                 [S EXCEPT !.hc = [h1 EXCEPT !.keystream_ptr = @ + todo], !.mem = m2],
                 Adv(in, todo), Adv(out, todo), len - todo)

\* lc_hc_crypt
RECURSIVE lc_hc_crypt(_, _, _, _)
lc_hc_crypt(S, in, out, len) ==
    IF len = 0 THEN S
    ELSE LET need == S.hc.keystream_ptr >= LC_HC_KEYSTREAM_BLOCK
             g == lc_rng_generate(S.hc.drbg, LC_HC_KEYSTREAM_BLOCK)
         IN  IF need /\ g.ret # 0 THEN S
             ELSE LET h1 == IF need
                            THEN [S.hc EXCEPT !.drbg = g.drbg, !.keystream = g.out,
                                              !.keystream_ptr = 0]
                            ELSE S.hc
                      todo == min_size(min_size(len, LC_HC_KEYSTREAM_BLOCK),
                                       LC_HC_KEYSTREAM_BLOCK - h1.keystream_ptr)
                      m1 == IF in # out THEN memcpy(S.mem, out, in, todo) ELSE S.mem
                      m2 == xor_64(m1, out, h1.keystream, h1.keystream_ptr, todo)
                  IN  lc_hc_crypt([S EXCEPT !.hc = [h1 EXCEPT !.keystream_ptr = @ + todo],
                                            !.mem = m2],
                                  Adv(in, todo), Adv(out, todo), len - todo)

\* lc_hc_add_aad
lc_hc_add_aad(S, aad, aadlen) ==
    [S EXCEPT !.hc.auth = lc_hmac_update(@, ReadBytes(S.mem[aad.c], aad.o, aadlen))]

\* lc_hc_encrypt_tag: writes min(taglen, digestsize) bytes to tag
lc_hc_encrypt_tag(S, tag, taglen) ==
    LET digestsize == lc_hc_get_tagsize(S.hc)
        digest == lc_hmac_final(S.hc.auth, digestsize)
    IN  IF LC_SHA_MAX_SIZE_DIGEST < digestsize THEN S
        ELSE IF taglen < digestsize
        THEN [S EXCEPT !.mem[tag.c] = WriteBytes(@, tag.o, SubSeq(digest, 1, taglen))]
        ELSE [S EXCEPT !.mem[tag.c] = WriteBytes(@, tag.o, digest)]

\* lc_hc_encrypt
lc_hc_encrypt(S, plaintext, ciphertext, datalen) ==
    LET S1 == lc_hc_crypt(S, plaintext, ciphertext, datalen)
    IN  [S1 EXCEPT !.hc.auth =
            lc_hmac_update(@, ReadBytes(S1.mem[ciphertext.c], ciphertext.o, datalen))]

\* lc_hc_decrypt
lc_hc_decrypt(S, ciphertext, plaintext, datalen) ==
    LET S1 == [S EXCEPT !.hc.auth =
                  lc_hmac_update(@, ReadBytes(S.mem[ciphertext.c], ciphertext.o, datalen))]
    IN  lc_hc_crypt(S1, ciphertext, plaintext, datalen)

\* lc_hc_encrypt_oneshot
lc_hc_encrypt_oneshot(S, plaintext, ciphertext, datalen, aad, aadlen, tag, taglen) ==
    lc_hc_encrypt_tag(
        lc_hc_encrypt(lc_hc_add_aad(S, aad, aadlen), plaintext, ciphertext, datalen),
        tag, taglen)

\* the bytes found in uint8_t calctag[LC_SHA_MAX_SIZE_DIGEST] when the frame
\* of lc_hc_decrypt_authenticate is entered: what earlier calls left on the
\* stack.  junk is <<"b", v>>, every byte being v, or <<"tag", 0>>, the bytes
\* of the caller's tag buffer left there by a call made just before
StackImage(S, tag, junk) ==
    IF junk[1] = "tag"
    THEN [i \in 1..LC_SHA_MAX_SIZE_DIGEST |->
            IF tag.o + i <= Len(S.mem[tag.c]) THEN S.mem[tag.c][tag.o + i]
            ELSE <<"b", 0>>]
    ELSE Fill(LC_SHA_MAX_SIZE_DIGEST, junk)

\* lc_hc_decrypt_authenticate; calctag is a stack array that is not
\* initialised: its bytes are those of StackImage until lc_hc_encrypt_tag
\* writes them
lc_hc_decrypt_authenticate(S, tag, taglen, junk) ==
    IF taglen > LC_SHA_MAX_SIZE_DIGEST THEN [S EXCEPT !.ret = 0 - EINVAL]
    ELSE LET S0 == [S EXCEPT !.mem.calctag = StackImage(S, tag, junk)]
             S1 == lc_hc_encrypt_tag(S0, Ptr("calctag", 0), taglen)
             r == IF lc_memcmp_secure(ReadBytes(S1.mem.calctag, 0, taglen),
                                      ReadBytes(S1.mem[tag.c], tag.o, taglen)) # 0
                  THEN 0 - EBADMSG ELSE 0
         IN  [S1 EXCEPT !.mem.calctag = <<>>, !.ret = r]

\* lc_hc_decrypt_oneshot
lc_hc_decrypt_oneshot(S, ciphertext, plaintext, datalen, aad, aadlen, tag, taglen, junk) ==
    lc_hc_decrypt_authenticate(
        lc_hc_decrypt(lc_hc_add_aad(S, aad, aadlen), ciphertext, plaintext, datalen),
        tag, taglen, junk)

\* lc_hc_zero
lc_hc_zero(S) == [S EXCEPT !.hc = HcZero(S.hc.dsize)]

-----------------------------------------------------------------------------
(* ============ algorithm-status registry and self-test gate ============= *)

StatusInit == [id \in AlgIds |-> "unset"]
RunsInit == [id \in AlgIds |-> 0]

\* LC_SELFTEST_RUN(id): the self-test proceeds only for the caller that moves
\* the cell from unset to running (one atomic compare-and-set)
LC_SELFTEST_RUN(st, id) == st[id] = "unset"

\* lc_compare_selftest(id, act, exp, ...): latch the result of the comparison
lc_compare_selftest(st, id, equal) ==
    [st EXCEPT ![id] = IF equal THEN "passed" ELSE "failed"]

\* LC_SELFTEST_COMPLETED(id): the caller returns -EOPNOTSUPP unless passed
LC_SELFTEST_COMPLETED(st, id) == st[id] = "passed"

\* a complete self-test function executed without interleaving, as in
\* lc_hc_selftest: LC_SELFTEST_RUN, the vectors, lc_compare_selftest.
\* G is [st, runs]
selftest_atomic(G, id, ok) ==
    IF ~LC_SELFTEST_RUN(G.st, id) THEN G
    ELSE [st |-> lc_compare_selftest([G.st EXCEPT ![id] = "running"], id, ok),
          runs |-> [G.runs EXCEPT ![id] = @ + 1]]

-----------------------------------------------------------------------------
(* ===================== the caller of the hash AEAD ===================== *)

\* bounds of the AEAD runs
AeadExtra == 2          \* data bytes beyond one keystream block
MaxUpdates == 3         \* streaming update calls per direction

AeadKeyIvs == {<<(<<1>>), (<<>>)>>, <<(<<2, 3>>), (<<5>>)>>}
AeadAads == {<<>>, <<9>>, <<9, 4>>}
AeadLens == {0, 1, LC_HC_KEYSTREAM_BLOCK, LC_HC_KEYSTREAM_BLOCK + AeadExtra}
AeadTagLens == {0, 1, 32, LC_SHA_MAX_SIZE_DIGEST, LC_SHA_MAX_SIZE_DIGEST + 1}
AeadDigests == {32, 64}         \* SHA-256 / SHA-512 class hashes
\* contents of the stack below the caller: the build can leave any bytes
\* there.  The bytes lc_hc_encrypt_tag does not overwrite are compared with
\* the received tag, so the images are chosen to give both results of that
\* comparison on every input: the received tag itself (equal), bytes of value
\* 170 (unequal), and zero bytes
StackJunk == {<<"b", 0>>, <<"b", 170>>, <<"tag", 0>>}

Pt(len) == [i \in 1..len |-> (17 * i + 3) % 256]

\* cell holding the ciphertext / the decrypted data for this run
CtCell == IF ain.inplace THEN "a" ELSE "b"
OutCell == IF ain.inplace THEN "a" ELSE "c"

Cur == [hc |-> hc, mem |-> mem, ret |-> aret]

Commit(S) == /\ hc' = S.hc
             /\ mem' = S.mem
             /\ aret' = S.ret

\* a call whose caller keeps a copy of the instance and of its buffers
Snapshot == aprev' = [hc |-> hc, mem |-> mem, pc |-> apc]

AeadInit ==
    /\ ain \in [ki : AeadKeyIvs, aad : AeadAads, len : AeadLens,
                taglen : AeadTagLens, dsize : AeadDigests, inplace : BOOLEAN]
    /\ hc = HcZero(ain.dsize)
    /\ mem = [a |-> Pt(ain.len), b |-> Fill(ain.len, 0), c |-> Fill(ain.len, 0),
              aad |-> ain.aad, tag |-> Fill(ain.taglen, <<"b", 0>>),
              calctag |-> <<>>]
    /\ apc = "start"
    /\ aret = 0
    /\ aoff = [aad |-> 0, data |-> 0, n |-> 0]
    /\ atamper = "none"
    /\ aprev = [hc |-> hc, mem |-> mem, pc |-> "none"]

\* lc_hc_setkey: self-test gate, then lc_hc_setkey_nocheck
lc_hc_setkey(S, G, key, iv) ==
    LET G1 == selftest_atomic(G, "HASH_CRYPT", kat_ok["HASH_CRYPT"])
    IN  IF ~LC_SELFTEST_COMPLETED(G1.st, "HASH_CRYPT")
        THEN [S |-> [S EXCEPT !.ret = 0 - EOPNOTSUPP], G |-> G1]
        ELSE [S |-> lc_hc_setkey_nocheck(S, key, iv), G |-> G1]

ASetkey ==
    /\ apc \in {"start", "zeroed"}
    /\ LET R == lc_hc_setkey(Cur, [st |-> alg_status, runs |-> kat_runs],
                             ain.ki[1], ain.ki[2])
       IN  /\ Commit(R.S)
           /\ alg_status' = R.G.st
           /\ kat_runs' = R.G.runs
           /\ apc' = IF R.S.ret # 0 THEN "failed"
                     ELSE IF apc = "start" THEN "keyed_e" ELSE "keyed_d"
    /\ aoff' = [aad |-> 0, data |-> 0, n |-> 0]
    /\ UNCHANGED <<aprev, kat_ok, ain, atamper, notA>>

\* lc_hc_setkey called again, with another key, on an instance that is keyed,
\* absorbing AAD or crypting
ARekey ==
    /\ apc \in {"keyed_e", "aad_e", "upd_e"}
    /\ \E ki \in AeadKeyIvs \ {ain.ki} :
        LET R == lc_hc_setkey(Cur, [st |-> alg_status, runs |-> kat_runs],
                              ki[1], ki[2])
        IN  /\ Commit(R.S)
            /\ alg_status' = R.G.st
            /\ kat_runs' = R.G.runs
    /\ apc' = "rekeyed"
    /\ Snapshot
    /\ UNCHANGED <<kat_ok, ain, aoff, atamper, notA>>

AEncryptOneshot ==
    /\ apc = "keyed_e"
    /\ Commit(lc_hc_encrypt_oneshot(Cur, Ptr("a", 0), Ptr(CtCell, 0), ain.len,
                                    Ptr("aad", 0), Len(ain.aad),
                                    Ptr("tag", 0), ain.taglen))
    /\ apc' = "enc_done"
    /\ UNCHANGED <<aprev, gvars, notA, ain, aoff, atamper>>

\* enc_init / dec_init: absorb the next n bytes of AAD
AInit(from, to) ==
    /\ apc \in from
    /\ \E n \in {0, 1, Len(ain.aad) - aoff.aad} :
        /\ n <= Len(ain.aad) - aoff.aad
        /\ apc = to => n > 0
        /\ Commit(lc_hc_add_aad(Cur, Ptr("aad", aoff.aad), n))
        /\ aoff' = [aoff EXCEPT !.aad = @ + n]
    /\ apc' = to
    /\ UNCHANGED <<aprev, gvars, notA, ain, atamper>>

AEncInit == AInit({"keyed_e", "aad_e"}, "aad_e")
ADecInit == AInit({"keyed_d", "aad_d"}, "aad_d")

ChunkSizes(rem) == {n \in {0, 1, LC_HC_KEYSTREAM_BLOCK - 1, rem} : n <= rem}

AEncUpdate ==
    /\ apc \in {"aad_e", "upd_e"}
    /\ aoff.aad = Len(ain.aad)
    /\ aoff.n < MaxUpdates
    /\ \E n \in ChunkSizes(ain.len - aoff.data) :
        /\ Commit(lc_hc_encrypt(Cur, Ptr("a", aoff.data), Ptr(CtCell, aoff.data), n))
        /\ aoff' = [aoff EXCEPT !.data = @ + n, !.n = @ + 1]
    /\ apc' = "upd_e"
    /\ UNCHANGED <<aprev, gvars, notA, ain, atamper>>

AEncFinal ==
    /\ apc \in {"aad_e", "upd_e"}
    /\ aoff.aad = Len(ain.aad)
    /\ aoff.data = ain.len
    /\ Commit(lc_hc_encrypt_tag(Cur, Ptr("tag", 0), ain.taglen))
    /\ apc' = "enc_done"
    /\ UNCHANGED <<aprev, gvars, notA, ain, aoff, atamper>>

\* the modification the repository's test makes before it expects the
\* integrity error: cipher[0] = (cipher[0] + 0x01) & 0xff, here on byte i
ModifyData(buf, i) == [buf EXCEPT ![i] = (@ + 1) % 256]

\* a modification of one bit of a data byte / of a (symbolic) tag byte
FlipData(buf, i, bit) == [buf EXCEPT ![i] = XorByte(@, Pow2(bit))]
FlipTag(buf, i, bit) == [buf EXCEPT ![i] = <<"flip", @, bit>>]

\* the modification t = <<cell, byte, bit, how>> applied to the cell's bytes
Tamper(buf, t) ==
    IF t[4] = "inc" THEN ModifyData(buf, t[2])
    ELSE IF t[1] = "tag" THEN FlipTag(buf, t[2], t[3])
    ELSE FlipData(buf, t[2], t[3])

\* the wire: the first ciphertext byte is incremented as in the test, or one
\* bit of the ciphertext, of the AAD or of the tag is flipped
ATamper ==
    /\ apc = "enc_done"
    /\ atamper = "none"
    /\ \E t \in {<<CtCell, 1, 0, "inc">>,
                 <<CtCell, 1, 0, "flip">>, <<CtCell, ain.len, 7, "flip">>,
                 <<"aad", 1, 3, "flip">>,
                 <<"tag", 1, 0, "flip">>, <<"tag", ain.taglen, 7, "flip">>} :
        /\ t[2] >= 1
        /\ t[2] <= Len(mem[t[1]])
        /\ mem' = [mem EXCEPT ![t[1]] = Tamper(@, t)]
        /\ atamper' = t
    /\ UNCHANGED <<gvars, notA, hc, ain, apc, aret, aoff, aprev>>

AZero ==
    /\ apc = "enc_done"
    /\ Commit(lc_hc_zero(Cur))
    /\ apc' = "zeroed"
    /\ UNCHANGED <<aprev, gvars, notA, ain, aoff, atamper>>

ADecryptOneshot ==
    /\ apc = "keyed_d"
    /\ \E junk \in StackJunk :
        Commit(lc_hc_decrypt_oneshot(Cur, Ptr(CtCell, 0), Ptr(OutCell, 0), ain.len,
                                     Ptr("aad", 0), Len(mem.aad),
                                     Ptr("tag", 0), ain.taglen, junk))
    /\ apc' = "dec_done"
    /\ Snapshot
    /\ UNCHANGED <<gvars, notA, ain, aoff, atamper>>

ADecUpdate ==
    /\ apc \in {"aad_d", "upd_d"}
    /\ aoff.aad = Len(ain.aad)
    /\ aoff.n < MaxUpdates
    /\ \E n \in ChunkSizes(ain.len - aoff.data) :
        /\ Commit(lc_hc_decrypt(Cur, Ptr(CtCell, aoff.data), Ptr(OutCell, aoff.data), n))
        /\ aoff' = [aoff EXCEPT !.data = @ + n, !.n = @ + 1]
    /\ apc' = "upd_d"
    /\ UNCHANGED <<aprev, gvars, notA, ain, atamper>>

ADecFinal ==
    /\ apc \in {"aad_d", "upd_d"}
    /\ aoff.aad = Len(ain.aad)
    /\ aoff.data = ain.len
    /\ \E junk \in StackJunk :
        Commit(lc_hc_decrypt_authenticate(Cur, Ptr("tag", 0), ain.taglen, junk))
    /\ apc' = "dec_done"
    /\ Snapshot
    /\ UNCHANGED <<gvars, notA, ain, aoff, atamper>>

\* the receiver is handed the bytes AAD || ciphertext and the tag of the encrypt
\* call, cut one byte later: the first ciphertext byte is presented as the last
\* AAD byte.  One-shot decryption of that input.
ADecryptResplit ==
    /\ apc = "keyed_d"
    /\ atamper = "none"
    /\ ain.len >= 1
    /\ \E junk \in StackJunk :
        LET m2 == [mem EXCEPT !.aad = @ \o <<mem[CtCell][1]>>, ![CtCell] = Tail(@)]
        IN  Commit(lc_hc_decrypt_oneshot([Cur EXCEPT !.mem = m2],
                                         Ptr(CtCell, 0), Ptr(OutCell, 0), ain.len - 1,
                                         Ptr("aad", 0), Len(m2.aad),
                                         Ptr("tag", 0), ain.taglen, junk))
    /\ apc' = "dec_resplit"
    /\ UNCHANGED <<aprev, gvars, notA, ain, aoff, atamper>>

\* the sponge instance of a run that does not use it
SpongeIdle ==
    /\ sp = [state |-> <<>>, r |-> 1, padding |-> 0, msg_len |-> 0,
             squeeze_more |-> 0, offset |-> 0, digestsize |-> 0]
    /\ sprev = sp
    /\ slast = [op |-> "init", n |-> 0]
    /\ sout = <<>>
    /\ twin = [ctx |-> sp, out |-> <<>>]
    /\ sops = 0
    /\ srun = [msg |-> <<>>, chunks |-> <<>>, nsq |-> 0, base |-> sp, out |-> <<>>,
               parts |-> <<>>]

\* no DRNG call has been made yet
DrngNoCall == [op |-> "alloc", fn |-> "none", ptr |-> "state", sd |-> <<>>,
               alpha |-> <<>>, outlen |-> 0, written |-> <<>>, end |-> "return",
               deref |-> FALSE]

\* the DRNG instance of a run that does not use it
DrngIdle ==
    /\ rng = [kind |-> "kmac", key |-> <<"zero">>, initially_seeded |-> 0]
    /\ dinit = <<>>
    /\ dlog = <<>>
    /\ dout = <<>>
    /\ dret = 0
    /\ dops = 0
    /\ dprev = rng
    /\ dlast = DrngNoCall
    /\ dtwin = [state |-> rng, out |-> <<>>, wiped |-> rng]

Threads == {1, 2}

\* LC_CPU_FEATURE_UNSET: no bit set
LC_CPU_FEATURE_UNSET == {}

\* tmp: the value of features a thread has loaded for features |= X; st: the
\* store of that statement is still to be made
CpuThreadIdle == [pc |-> "idle", isar |-> {}, n |-> 0, tmp |-> {}, st |-> FALSE]

\* the detector of a run that does not use it
CpuIdle ==
    /\ features = LC_CPU_FEATURE_UNSET
    /\ hwcap = {}
    /\ cth = [t \in Threads |-> CpuThreadIdle]
    /\ crets = {}
    /\ cforced = {}

\* no ML-DSA operation is made in this run
MldIdle == [pc |-> "idle", sel |-> "none", impls |-> <<>>, ret |-> 0, n |-> 0, ops |-> 0]
DispIdle == mld = MldIdle

\* no cmov call is made in this run
CmIdle == [pc |-> "idle", r0 |-> <<>>, x |-> <<>>, b |-> 0, blocker |-> 0, r |-> <<>>]

\* the memory provider before its first call: nothing allocated, no descriptor
\* open; lc_alloc_have_memfd_secret is 1 in a build with LC_USE_MEMFD_SECURE
MaxBlocks == 2          \* underlying allocations alive at one time
Slots == 1..MaxBlocks
NoHdr == [size |-> 0, fd |-> 0 - 2]     \* no struct lc_mem_def was written
NoBlock == [mech |-> "none", base |-> 0, size |-> 0, fd |-> 0 - 1, hdr |-> NoHdr]
NoHeapCall == [fn |-> "none", ret |-> 0, ptr |-> 0, alignment |-> 0, base |-> 0,
               stored |-> FALSE, ctor |-> "none"]
HeapIdle == [have_memfd |-> TRUE, blocks |-> [s \in Slots |-> NoBlock], fds |-> {},
             rel |-> <<>>, last |-> NoHeapCall, ops |-> 0, ub |-> FALSE]
MemIdle == cm = CmIdle /\ heap = HeapIdle

\* static int tested = 0
TestedInit == [val |-> 0, done |-> FALSE]

ThreadIdle == [pc |-> "idle", op |-> "none", n |-> 0]

GateIdle ==
    /\ alg_status = StatusInit
    /\ kat_runs = RunsInit
    /\ th = [t \in Threads |-> ThreadIdle]
    /\ glog = {}
    /\ gcalls = [id \in AlgIds |-> 0]
    /\ tested = TestedInit

InitAead ==
    /\ GateIdle
    /\ kat_ok \in [AlgIds -> BOOLEAN]
    /\ \A id \in AlgIds \ {"HASH_CRYPT"} : kat_ok[id]
    /\ AeadInit
    /\ SpongeIdle
    /\ DrngIdle
    /\ CpuIdle
    /\ DispIdle
    /\ MemIdle

NextAead ==
    \/ ASetkey
    \/ ARekey
    \/ AEncryptOneshot
    \/ AEncInit
    \/ AEncUpdate
    \/ AEncFinal
    \/ ATamper
    \/ AZero
    \/ ADecryptOneshot
    \/ ADecInit
    \/ ADecUpdate
    \/ ADecFinal
    \/ ADecryptResplit

SpecAead == InitAead /\ [][NextAead]_vars

-----------------------------------------------------------------------------
(* ===================== properties of the hash AEAD ===================== *)

\* the run's memory and instance before the first call
AeadStart ==
    [hc |-> HcZero(ain.dsize),
     mem |-> [a |-> Pt(ain.len), b |-> Fill(ain.len, 0), c |-> Fill(ain.len, 0),
              aad |-> ain.aad, tag |-> Fill(ain.taglen, <<"b", 0>>),
              calctag |-> <<>>],
     ret |-> 0]

\* one-shot encryption of the run's inputs
EncRef ==
    lc_hc_encrypt_oneshot(lc_hc_setkey_nocheck(AeadStart, ain.ki[1], ain.ki[2]),
                          Ptr("a", 0), Ptr(CtCell, 0), ain.len,
                          Ptr("aad", 0), Len(ain.aad), Ptr("tag", 0), ain.taglen)

\* what the decrypting side receives
Wire(m) ==
    IF atamper = "none" THEN m
    ELSE [m EXCEPT ![atamper[1]] = Tamper(@, atamper)]

\* one-shot decryption of what was received, calctag holding junk
DecRef(junk) ==
    lc_hc_decrypt_oneshot(
        lc_hc_setkey_nocheck(lc_hc_zero([EncRef EXCEPT !.mem = Wire(@)]),
                             ain.ki[1], ain.ki[2]),
        Ptr(CtCell, 0), Ptr(OutCell, 0), ain.len,
        Ptr("aad", 0), Len(ain.aad), Ptr("tag", 0), ain.taglen, junk)

\* C1: decrypting an input that differs from the encrypt output in one bit of
\* the ciphertext, of the AAD or of the tag returns -EBADMSG, whatever the
\* tag length the encrypt call was given.
C1_TamperedFailsBadmsg ==
    (apc = "dec_done" /\ atamper # "none" /\ atamper[4] = "flip") =>
        aret = 0 - EBADMSG

\* C2: decrypting the untouched encrypt output under the same key and IV
\* returns success and yields the original plaintext, in place or not, for
\* all tag lengths.
C2_RoundTrip ==
    (apc = "dec_done" /\ atamper = "none") =>
        (aret = 0 /\ mem[OutCell] = Pt(ain.len))

\* C3: whatever the partition of the AAD and of the data into streaming calls,
\* ciphertext and tag after enc_final are those of the one-shot encrypt, and
\* plaintext and verdict after dec_final are those of the one-shot decrypt of
\* the same received input (where the verdict depends on the indeterminate
\* bytes of calctag, an outcome the one-shot decrypt can produce).
C3_StreamingEqualsOneshot ==
    /\ apc \in {"enc_done", "zeroed", "keyed_d", "aad_d"} => mem = Wire(EncRef.mem)
    /\ apc = "dec_done" =>
          \E junk \in StackJunk :
              /\ mem = DecRef(junk).mem
              /\ aret = DecRef(junk).ret

\* a streamed decryption in three update calls of data longer than one
\* keystream block has finished with success under a full-size tag
C3_Witness ==
    /\ apc = "dec_done"
    /\ aoff.n = MaxUpdates
    /\ aoff.data > LC_HC_KEYSTREAM_BLOCK
    /\ aoff.aad = 2
    /\ aret = 0
    /\ atamper = "none"
    /\ ain.taglen = ain.dsize
    /\ mem[OutCell] = Pt(ain.len)

\* C11: a set_key call made while the instance is keyed, absorbing AAD or
\* crypting fails (non-zero return code) and leaves the keystream generator,
\* the MAC state and the keystream buffer as they were before the call.
C11_RekeyMidStreamRejected ==
    apc = "rekeyed" =>
        /\ aret # 0
        /\ hc.drbg = aprev.hc.drbg
        /\ hc.auth = aprev.hc.auth
        /\ hc.keystream = aprev.hc.keystream
        /\ hc.keystream_ptr = aprev.hc.keystream_ptr

\* C12: when a decrypt call (one-shot decrypt or dec_final) returns an error,
\* the caller's output buffer is as it was before that call or is zeroed: it
\* does not hold data decrypted by the failing call.
C12_FailedCallLeavesOutputUntouched ==
    (apc = "dec_done" /\ aret # 0) =>
        \/ mem[OutCell] = aprev.mem[OutCell]
        \/ mem[OutCell] = Fill(ain.len, 0)

\* the keystream byte that belongs to data byte j (1-based) of a stream: after
\* the seed, request 0 of the generator is the MAC key and request 1 + k is
\* keystream block k
KsRef(hist, j) ==
    KsByte(hist, 1 + ((j - 1) \div LC_HC_KEYSTREAM_BLOCK),
           ((j - 1) % LC_HC_KEYSTREAM_BLOCK) + 1)

\* data bytes crypted so far in this direction
Consumed == IF apc \in {"enc_done", "dec_done"} THEN ain.len ELSE aoff.data

\* C25: keystream_ptr never exceeds LC_HC_KEYSTREAM_BLOCK; data byte j is
\* XORed with byte (j mod block) of keystream block (j div block), so every
\* index used is below the block size, a new block is generated before the
\* byte that follows a full block, and no keystream byte meets two data bytes.
C25_KeystreamConsumedOnce ==
    /\ hc.keystream_ptr <= LC_HC_KEYSTREAM_BLOCK
    /\ apc \in {"keyed_e", "aad_e", "upd_e", "enc_done",
                "keyed_d", "aad_d", "upd_d", "dec_done"} =>
         /\ hc.keystream_ptr =
               IF Consumed = 0 THEN 0 ELSE ((Consumed - 1) % LC_HC_KEYSTREAM_BLOCK) + 1
         /\ hc.drbg.ctr =
               2 + (IF Consumed = 0 THEN 0 ELSE (Consumed - 1) \div LC_HC_KEYSTREAM_BLOCK)
    /\ (apc \in {"keyed_e", "aad_e", "upd_e", "enc_done"} /\ atamper = "none") =>
         \A j \in 1..Consumed :
            mem[CtCell][j] = XorByte(Pt(ain.len)[j], KsRef(hc.drbg.hist, j))
    /\ (apc \in {"keyed_d", "aad_d", "upd_d", "dec_done"} /\ ~ain.inplace) =>
         \A j \in 1..Consumed :
            mem[OutCell][j] = XorByte(mem[CtCell][j], KsRef(hc.drbg.hist, j))

\* C25: a stream was crypted in three calls, the second ending exactly at the
\* end of the first keystream block
C25_Witness ==
    /\ apc = "upd_e"
    /\ aoff.n = 3
    /\ aoff.data = LC_HC_KEYSTREAM_BLOCK + AeadExtra
    /\ hc.keystream_ptr = AeadExtra
    /\ hc.drbg.ctr = 3

\* C30: with key, IV and tag of the encrypt call, the bytes AAD || ciphertext
\* cut at another place are not accepted: decryption of the re-cut input
\* returns an error (stated for tags of 1 .. digest size bytes)
C30_TagBindsAadCiphertextSplit ==
    (apc = "dec_resplit" /\ ain.taglen >= 1 /\ ain.taglen <= ain.dsize) => aret # 0

-----------------------------------------------------------------------------
(* ========================== Keccak sponge glue ========================= *)

\* bounds of the sponge runs: a scaled-down permutation width and rates
SpongeWidth == 6        \* bytes of the permutation state (200 in Keccak)
SpongeRateMin == 3      \* the rates are SpongeRateMin and SpongeRateMin + 1
MaxSpongeOps == 4       \* calls per run

SpongeRates == {SpongeRateMin, SpongeRateMin + 1}
SpongePaddings == {4, 31}       \* cSHAKE 0x04, SHAKE 0x1f

\* the permutation: an invertible toy map on the state bytes (a triangular
\* mix followed by a rotation)
keccakf1600(A) ==
    LET n == Len(A)
        t == [i \in 1..n |-> IF i = 1 THEN (A[1] + 1) % 256
                             ELSE (A[i] + 3 * A[i - 1] + i) % 256]
    IN  [i \in 1..n |-> t[(i % n) + 1]]

\* sha3_fill_state_bytes: XOR inlen bytes of in into the state at byte_offset
sha3_fill_state_bytes(A, in, byte_offset, inlen) ==
    [i \in 1..Len(A) |->
        IF i > byte_offset /\ i <= byte_offset + inlen
        THEN XorByte(A[i], in[i - byte_offset]) ELSE A[i]]

\* lc_keccak_absorb_arm_*: absorb whole blocks, return the length left over
RECURSIVE lc_keccak_absorb(_, _, _)
lc_keccak_absorb(A, inp, r) ==
    IF Len(inp) < r THEN [A |-> A, rem |-> Len(inp)]
    ELSE lc_keccak_absorb(keccakf1600(sha3_fill_state_bytes(A, inp, 0, r)),
                          SubSeq(inp, r + 1, Len(inp)), r)

\* lc_keccak_squeeze_arm_*: output the state block by block, permuting
\* between two blocks
RECURSIVE lc_keccak_squeeze(_, _, _)
lc_keccak_squeeze(A, len, r) ==
    IF len = 0 THEN [A |-> A, out |-> <<>>]
    ELSE LET todo == min_size(len, r)
         IN  IF len - todo = 0 THEN [A |-> A, out |-> SubSeq(A, 1, todo)]
             ELSE LET rest == lc_keccak_squeeze(keccakf1600(A), len - todo, r)
                  IN  [A |-> rest.A, out |-> SubSeq(A, 1, todo) \o rest.out]

\* sha3 init of a SHAKE / cSHAKE instance
sha3_init(r, padding) ==
    [state |-> Fill(SpongeWidth, 0), r |-> r, padding |-> padding,
     msg_len |-> 0, squeeze_more |-> 0, offset |-> 0, digestsize |-> 0]

\* absorb that ignores the bytes already buffered: every call starts at byte 0
\* of the block
keccak_absorb_ignores_partial(ctx, in) ==
    LET blocksize == ctx.r
        inlen == Len(in)
        c1 == [ctx EXCEPT !.squeeze_more = 0, !.msg_len = @ + inlen]
        ab == IF inlen >= blocksize
              THEN lc_keccak_absorb(c1.state, in, blocksize)
              ELSE [A |-> c1.state, rem |-> inlen]
        in2 == SubSeq(in, inlen - ab.rem + 1, inlen)
    IN  [c1 EXCEPT !.state = sha3_fill_state_bytes(ab.A, in2, 0, ab.rem)]

\* keccak_arm_asm_absorb_internal
keccak_arm_asm_absorb_internal(ctx, in) ==
    LET blocksize == ctx.r
        partial == ctx.msg_len % blocksize
        inlen == Len(in)
        c1 == [ctx EXCEPT !.squeeze_more = 0, !.msg_len = @ + inlen]
        todo == blocksize - partial
    IN  IF partial # 0 /\ inlen < todo
        THEN [c1 EXCEPT !.state = sha3_fill_state_bytes(@, in, partial, inlen)]
        ELSE LET A1 == IF partial # 0
                       THEN keccakf1600(sha3_fill_state_bytes(c1.state, in, partial, todo))
                       ELSE c1.state
                 in1 == IF partial # 0 THEN SubSeq(in, todo + 1, inlen) ELSE in
                 ab == IF Len(in1) >= blocksize
                       THEN lc_keccak_absorb(A1, in1, blocksize)
                       ELSE [A |-> A1, rem |-> Len(in1)]
                 in2 == SubSeq(in1, Len(in1) - ab.rem + 1, Len(in1))
             IN  [c1 EXCEPT !.state = sha3_fill_state_bytes(ab.A, in2, 0, ab.rem)]

\* squeeze whose byte-wise part does not wrap the offset at the block size
keccak_squeeze_offset_not_wrapped(ctx) ==
    LET squeeze_more == ctx.squeeze_more
        digest_len == ctx.digestsize
        blocksize == ctx.r
        partial == ctx.msg_len % blocksize
        padded == sha3_fill_state_bytes(ctx.state, <<ctx.padding>>, partial, 1)
        padded2 == IF ctx.padding >= 128 /\ partial = blocksize - 1
                   THEN keccakf1600(padded) ELSE padded
        c1 == IF ctx.squeeze_more = 0
              THEN [ctx EXCEPT
                      !.state = keccakf1600(
                          [padded2 EXCEPT ![blocksize] = XorByte(@, 128)]),
                      !.squeeze_more = 1]
              ELSE ctx
        todo == min_size(digest_len, blocksize - c1.offset)
        out1 == SubSeq(c1.state, c1.offset + 1, c1.offset + todo)
        c2 == [c1 EXCEPT !.offset = @ + todo]
    IN  IF c1.offset # 0 /\ digest_len - todo = 0
        THEN [ctx |-> c2, out |-> out1]
        ELSE LET c3 == IF c1.offset # 0
                       THEN [c2 EXCEPT !.state = keccakf1600(@), !.offset = 0]
                       ELSE IF squeeze_more # 0
                       THEN [c1 EXCEPT !.state = keccakf1600(@)]
                       ELSE c1
                 dl == IF c1.offset # 0 THEN digest_len - todo ELSE digest_len
                 sq == lc_keccak_squeeze(c3.state, dl, blocksize)
             IN  [ctx |-> [c3 EXCEPT !.state = sq.A,
                                     !.offset = @ + ((dl + c3.offset) % blocksize)],
                  out |-> (IF c1.offset # 0 THEN out1 ELSE <<>>) \o sq.out]

\* keccak_arm_asm_squeeze_internal; returns [ctx, out]
keccak_arm_asm_squeeze_internal(ctx) ==
    LET squeeze_more == ctx.squeeze_more
        digest_len == ctx.digestsize
        blocksize == ctx.r
        partial == ctx.msg_len % blocksize
        padded == sha3_fill_state_bytes(ctx.state, <<ctx.padding>>, partial, 1)
        padded2 == IF ctx.padding >= 128 /\ partial = blocksize - 1
                   THEN keccakf1600(padded) ELSE padded
        c1 == IF ctx.squeeze_more = 0
              THEN [ctx EXCEPT
                      !.state = keccakf1600(
                          [padded2 EXCEPT ![blocksize] = XorByte(@, 128)]),
                      !.squeeze_more = 1]
              ELSE ctx
        todo == min_size(digest_len, blocksize - c1.offset)
        out1 == SubSeq(c1.state, c1.offset + 1, c1.offset + todo)
        c2 == [c1 EXCEPT !.offset = (@ + todo) % blocksize]
    IN  IF c1.offset # 0 /\ digest_len - todo = 0
        THEN [ctx |-> c2, out |-> out1]
        ELSE LET c3 == IF c1.offset # 0
                       THEN [c2 EXCEPT !.state = keccakf1600(@)]
                       ELSE IF squeeze_more # 0
                       THEN [c1 EXCEPT !.state = keccakf1600(@)]
                       ELSE c1
                 dl == IF c1.offset # 0 THEN digest_len - todo ELSE digest_len
                 sq == lc_keccak_squeeze(c3.state, dl, blocksize)
             IN  [ctx |-> [c3 EXCEPT !.state = sq.A,
                                     !.offset = @ + ((dl + c3.offset) % blocksize)],
                  out |-> (IF c1.offset # 0 THEN out1 ELSE <<>>) \o sq.out]

\* lc_hash_set_digestsize followed by lc_hash_final on an XOF
xof_squeeze(ctx, n) ==
    keccak_arm_asm_squeeze_internal([ctx EXCEPT !.digestsize = n])

(* ---- the caller of the sponge ---- *)

Msg(len) == [i \in 1..len |-> (11 * i + 5) % 256]

UpdateLens(r) == {0, 1, r - 1, r, 2 * r + 1}
SqueezeLens(r) == {0, 1, r - 1, r, 2 * r + 1}

\* the AEAD instance of a run that does not use it
AeadIdle ==
    /\ ain = [ki |-> <<(<<1>>), (<<>>)>>, aad |-> <<>>, len |-> 0, taglen |-> 0,
              dsize |-> 64, inplace |-> FALSE]
    /\ hc = HcZero(64)
    /\ mem = [a |-> <<>>, b |-> <<>>, c |-> <<>>, aad |-> <<>>, tag |-> <<>>,
              calctag |-> <<>>]
    /\ apc = "idle"
    /\ aret = 0
    /\ aoff = [aad |-> 0, data |-> 0, n |-> 0]
    /\ atamper = "none"
    /\ aprev = [hc |-> hc, mem |-> mem, pc |-> "none"]

InitSponge ==
    /\ GateIdle
    /\ kat_ok = [id \in AlgIds |-> TRUE]
    /\ AeadIdle
    /\ DrngIdle
    /\ CpuIdle
    /\ DispIdle
    /\ MemIdle
    /\ \E r \in SpongeRates, padding \in SpongePaddings : sp = sha3_init(r, padding)
    /\ sprev = sp
    /\ slast = [op |-> "init", n |-> 0]
    /\ sout = <<>>
    /\ twin = [ctx |-> sp, out |-> <<>>]
    /\ sops = 0
    /\ srun = [msg |-> <<>>, chunks |-> <<>>, nsq |-> 0, base |-> sp, out |-> <<>>,
               parts |-> <<>>]

\* lc_hash_update
SUpdate ==
    /\ sops < MaxSpongeOps
    /\ \E len \in UpdateLens(sp.r) :
        /\ sp' = keccak_arm_asm_absorb_internal(sp, Msg(len))
        /\ twin' = [twin EXCEPT !.ctx = keccak_arm_asm_absorb_internal(@, Msg(len))]
        /\ slast' = [op |-> "update", n |-> len]
        /\ srun' = [srun EXCEPT !.msg = @ \o Msg(len), !.chunks = Append(@, len),
                                !.base = sp', !.out = <<>>, !.parts = <<>>]
    /\ sprev' = sp
    /\ sops' = sops + 1
    /\ UNCHANGED <<notS, sout>>

\* lc_hash_set_digestsize(n); lc_hash_final
SSqueeze ==
    /\ sops < MaxSpongeOps
    /\ \E n \in SqueezeLens(sp.r) :
        LET R == xof_squeeze(sp, n)
            T == xof_squeeze(twin.ctx, n)
        IN  /\ sp' = R.ctx
            /\ sout' = sout \o R.out
            /\ twin' = IF n = 0 THEN twin
                       ELSE [ctx |-> T.ctx, out |-> twin.out \o T.out]
            /\ slast' = [op |-> "squeeze", n |-> n]
            /\ srun' = [srun EXCEPT !.nsq = @ + 1, !.out = @ \o R.out,
                                    !.parts = Append(@, n)]
    /\ sprev' = sp
    /\ sops' = sops + 1
    /\ UNCHANGED notS

NextSponge ==
    \/ SUpdate
    \/ SSqueeze

SpecSponge == InitSponge /\ [][NextSponge]_vars

\* C4: an update call on an instance in the squeezing state is rejected: it
\* absorbs nothing and leaves lanes, msg_len, offset and squeeze_more as
\* they were.
C4_UpdateInSqueezingRejected ==
    (slast.op = "update" /\ sprev.squeeze_more = 1) =>
        /\ sp.state = sprev.state
        /\ sp.msg_len = sprev.msg_len
        /\ sp.offset = sprev.offset
        /\ sp.squeeze_more = sprev.squeeze_more

\* C5: a squeeze call with n = 0 leaves offset and lanes as they were, and
\* the bytes delivered by the squeeze calls of the run are those of the same
\* run without its n = 0 calls.
C5_SqueezeZeroIsNoop ==
    /\ (slast.op = "squeeze" /\ slast.n = 0) =>
          /\ sp.offset = sprev.offset
          /\ sp.state = sprev.state
    /\ sout = twin.out

\* the block the first finalize leaves in the state of ctx: padding byte at
\* msg_len mod rate, 0x80 at rate - 1, one permutation
FinalBlock(ctx) ==
    LET partial == ctx.msg_len % ctx.r
        padded == sha3_fill_state_bytes(ctx.state, <<ctx.padding>>, partial, 1)
    IN  keccakf1600([padded EXCEPT ![ctx.r] = XorByte(@, 128)])

\* the bytes delivered by the last squeeze call
LastOut == SubSeq(sout, Len(sout) - slast.n + 1, Len(sout))

\* C20: a squeeze call on an instance in the absorbing state (squeeze_more
\* clear) pads, permutes once and enters the squeezing state at offset 0: the
\* bytes it delivers start with byte 0 of the block of that permutation, and
\* the offset it leaves is the number of bytes delivered modulo the rate.
C20_FirstSqueezeStartsAtByteZero ==
    (slast.op = "squeeze" /\ sprev.squeeze_more = 0) =>
        LET first == min_size(slast.n, sp.r)
        IN  /\ sp.squeeze_more = 1
            /\ SubSeq(LastOut, 1, first) = SubSeq(FinalBlock(sprev), 1, first)
            /\ sp.offset = slast.n % sp.r
            /\ slast.n <= sp.r => sp.state = FinalBlock(sprev)

\* C26: while no squeeze was made, the instance holds the lanes and msg_len
\* that one update with the concatenation of all chunks leaves in a new
\* instance, whatever the cut into update calls (empty chunks, chunks that
\* straddle a rate boundary).
C26_AbsorbPartitionIndependent ==
    srun.nsq = 0 =>
        LET one == keccak_arm_asm_absorb_internal(sha3_init(sp.r, sp.padding), srun.msg)
        IN  /\ sp.state = one.state
            /\ sp.msg_len = one.msg_len

\* C26: four update calls were made, one of them empty, the first leaving a
\* partial block that a later chunk carries over the rate boundary
C26_Witness ==
    /\ srun.nsq = 0
    /\ Len(srun.chunks) = MaxSpongeOps
    /\ \E i \in 1..Len(srun.chunks) : srun.chunks[i] = 0
    /\ srun.chunks[1] % sp.r # 0
    /\ Len(srun.msg) > 2 * sp.r

\* C27: the bytes delivered by consecutive squeeze calls are the bytes one
\* squeeze call of the total length delivers from the same instance, for all
\* lengths >= 0.
C27_SqueezeSplitIndependent ==
    srun.parts # <<>> =>
        srun.out = xof_squeeze(srun.base, Len(srun.out)).out

\* C27 (supporting): the same for squeeze calls of non-zero length on an
\* instance that was not updated after a squeeze
C27_SqueezeSplitNonZero ==
    (/\ srun.parts # <<>>
     /\ \A i \in 1..Len(srun.parts) : srun.parts[i] > 0
     /\ srun.base.offset = 0) =>
        srun.out = xof_squeeze(srun.base, Len(srun.out)).out

\* byte positions of the block that the byte-wise part of a squeeze call of n
\* bytes reads on ctx: offset .. offset + todo - 1 when the offset is not 0
bytewise_reads(ctx, n) ==
    IF ctx.offset = 0 THEN {}
    ELSE LET todo == min_size(n, ctx.r - ctx.offset)
         IN  {i \in 0..(2 * ctx.r) : ctx.offset <= i /\ i < todo + ctx.offset}

\* C28: after every squeeze call 0 <= offset < rate, offset is the number of
\* bytes squeezed so far modulo the rate, and the byte-wise part of the call
\* read no position >= rate.
C28_OffsetBelowRate ==
    slast.op = "squeeze" =>
        /\ 0 <= sp.offset /\ sp.offset < sp.r
        /\ sp.offset = Len(sout) % sp.r
        /\ \A i \in bytewise_reads(sprev, slast.n) : i < sp.r

\* C28: a squeeze call that started inside a block and went past its end
C28_Witness ==
    /\ slast.op = "squeeze"
    /\ sprev.squeeze_more = 1
    /\ sprev.offset # 0
    /\ slast.n > sp.r - sprev.offset
    /\ sp.offset # 0

-----------------------------------------------------------------------------
(* =============== fast-key-erasure DRNGs: KMAC-DRNG, XDRBG ============== *)

\* key size of the KMAC-DRNG and of XDRBG-256 (512 bits)
LC_KMAC256_DRNG_KEYSIZE == 64
LC_XDRBG256_DRNG_KEYSIZE == 64
\* largest block one KMAC context delivers: 100 cSHAKE-256 rate blocks
LC_KMAC256_DRNG_MAX_CHUNK == 13600
\* state->chunksize of XDRBG-256
LC_XDRBG256_DRNG_MAX_CHUNK == 272
\* at most this many left-most bytes of alpha are encoded
LC_KMAC256_DRNG_ENCODE_LENGTH == 84

\* The XOF is idealised: the n bytes squeezed from a context at position
\* squeezed are the term of everything the context was keyed with and absorbed.
XofOut(ctx, n) == <<"xof", ctx.k, ctx.cust, ctx.msg, ctx.squeezed, n>>

NullKey == <<"null">>
ZeroKey == <<"zero">>

\* the null state pointer
NULL == [kind |-> "NULL"]

\* lc_kmac_init(ctx, key, keylen, customization string)
lc_kmac_init(key, cust) == [k |-> key, cust |-> cust, msg |-> <<>>, squeezed |-> 0]

\* lc_kmac_update / lc_hash_update
lc_kmac_update(ctx, data) == [ctx EXCEPT !.msg = @ \o data]

\* lc_kmac_final_xof / lc_xdrbg_xof_final: squeeze n further bytes
lc_kmac_final_xof(ctx, n) ==
    [ctx |-> [ctx EXCEPT !.squeezed = @ + n], out |-> XofOut(ctx, n)]

\* lc_hash_init followed by lc_hash_update(state->v): an XOF context that
\* absorbed V first (NullKey: nothing absorbed)
lc_hash_init_v(v) == [k |-> v, cust |-> "", msg |-> <<>>, squeezed |-> 0]

\* a variant that encodes the whole length of alpha
kmac_encode_unclamped(ctx, n, alpha) ==
    LET alphalen == Len(alpha)
        encode == ((n * 85) + alphalen) % 256
    IN  lc_kmac_update(lc_kmac_update(ctx, SubSeq(alpha, 1, alphalen)), <<encode>>)

\* lc_kmac256_drng_encode
lc_kmac256_drng_encode(ctx, n, alpha) ==
    LET alphalen == IF Len(alpha) > 84 THEN 84 ELSE Len(alpha)
        encode == ((n * 85) + alphalen) % 256
    IN  lc_kmac_update(lc_kmac_update(ctx, SubSeq(alpha, 1, alphalen)), <<encode>>)

\* LC_XDRBG_DRNG_ENCODE_N
LC_XDRBG_DRNG_ENCODE_N(x) == x * 85

\* lc_xdrbg_drng_encode
lc_xdrbg_drng_encode(ctx, n, alpha) ==
    LET alphalen == IF Len(alpha) > 84 THEN 84 ELSE Len(alpha)
        encode == (n + alphalen) % 256
    IN  lc_kmac_update(lc_kmac_update(ctx, SubSeq(alpha, 1, alphalen)), <<encode>>)

\* a variant that squeezes K(N + 1) but does not store it in the state
fke_init_ctx_key_not_stored(state, alpha, initret) ==
    IF initret # 0 THEN [ret |-> initret, state |-> state, ctx |-> lc_kmac_init(NullKey, "")]
    ELSE LET c == lc_kmac256_drng_encode(
                      lc_kmac_init(state.key, "KMAC-DRNG generate"), 2, alpha)
             f == lc_kmac_final_xof(c, LC_KMAC256_DRNG_KEYSIZE)
         IN  [ret |-> 0, state |-> state, ctx |-> f.ctx]

\* lc_kmac256_drng_fke_init_ctx; returns [ret, state, ctx]
lc_kmac256_drng_fke_init_ctx(state, alpha, initret) ==
    IF initret # 0 THEN [ret |-> initret, state |-> state, ctx |-> lc_kmac_init(NullKey, "")]
    ELSE LET c == lc_kmac256_drng_encode(
                      lc_kmac_init(state.key, "KMAC-DRNG generate"), 2, alpha)
             f == lc_kmac_final_xof(c, LC_KMAC256_DRNG_KEYSIZE)
         IN  [ret |-> 0, state |-> [state EXCEPT !.key = f.out], ctx |-> f.ctx]

\* lc_xdrbg_drng_fke_init_ctx; returns [ret, state, ctx]
lc_xdrbg_drng_fke_init_ctx(state, alpha, initret) ==
    IF initret # 0 THEN [ret |-> initret, state |-> state, ctx |-> lc_hash_init_v(NullKey)]
    ELSE LET c == lc_xdrbg_drng_encode(lc_hash_init_v(state.key),
                                       LC_XDRBG_DRNG_ENCODE_N(2), alpha)
             f == lc_kmac_final_xof(c, LC_XDRBG256_DRNG_KEYSIZE)
         IN  [ret |-> 0, state |-> [state EXCEPT !.key = f.out], ctx |-> f.ctx]

\* the generate loop shared by lc_kmac256_drng_generate and
\* lc_xdrbg_drng_generate. G is [state, out, log, ret]; every chunk appends to
\* log the key held in the state at the moment its bytes are written to out.
\* Every pass calls the context initialisation under CKINT: initrets holds
\* the return code of lc_kmac_init / lc_hash_init in each pass, in order
RECURSIVE drng_generate_loop(_, _, _, _, _)
drng_generate_loop(G, alpha, outlen, chunk, initrets) ==
    IF outlen = 0 THEN G
    ELSE LET todo == min_size(outlen, chunk)
             f == IF G.state.kind = "kmac"
                  THEN lc_kmac256_drng_fke_init_ctx(G.state, alpha, Head(initrets))
                  ELSE lc_xdrbg_drng_fke_init_ctx(G.state, alpha, Head(initrets))
             o == lc_kmac_final_xof(f.ctx, todo)
         IN  IF f.ret # 0 THEN [G EXCEPT !.ret = f.ret, !.state = f.state]
             ELSE drng_generate_loop(
                      [state |-> f.state,
                       out |-> Append(G.out, [by |-> f.ctx.k, bytes |-> o.out]),
                       log |-> Append(G.log, [ctx |-> f.ctx, held |-> f.state.key,
                                              before |-> G.state.key]),
                       ret |-> 0],
                      alpha, outlen - todo, chunk, Tail(initrets))

\* lc_kmac256_drng_generate
lc_kmac256_drng_generate(state, alpha, outlen, initrets) ==
    IF state = NULL
    THEN [state |-> state, out |-> <<>>, log |-> <<>>, ret |-> 0 - EINVAL]
    ELSE drng_generate_loop([state |-> state, out |-> <<>>, log |-> <<>>, ret |-> 0],
                            alpha, outlen,
                            LC_KMAC256_DRNG_MAX_CHUNK - LC_KMAC256_DRNG_KEYSIZE,
                            initrets)

\* lc_xdrbg_drng_generate
lc_xdrbg_drng_generate(state, alpha, outlen, initrets) ==
    IF state = NULL
    THEN [state |-> state, out |-> <<>>, log |-> <<>>, ret |-> 0 - EINVAL]
    ELSE drng_generate_loop([state |-> state, out |-> <<>>, log |-> <<>>, ret |-> 0],
                            alpha, outlen, LC_XDRBG256_DRNG_MAX_CHUNK, initrets)

\* a variant that keys the seed context with the key field whatever the flag
kmac_seed_always_absorbs_key(state, seed, persbuf, initret) ==
    LET initially_seeded == state.initially_seeded
        c0 == lc_kmac_init(state.key, "KMAC-DRNG seed")
        s1 == [state EXCEPT !.initially_seeded = 1]
        c2 == lc_kmac256_drng_encode(lc_kmac_update(c0, seed), initially_seeded, persbuf)
    IN  IF initret # 0 THEN [ret |-> initret, state |-> state]
        ELSE [ret |-> 0,
              state |-> [s1 EXCEPT !.key = lc_kmac_final_xof(c2, LC_KMAC256_DRNG_KEYSIZE).out]]

\* lc_kmac256_drng_seed_nocheck; returns [ret, state]
lc_kmac256_drng_seed_nocheck(state, seed, persbuf, initret) ==
    LET initially_seeded == state.initially_seeded
        c0 == IF initially_seeded # 0
              THEN lc_kmac_init(state.key, "KMAC-DRNG seed")
              ELSE lc_kmac_init(NullKey, "KMAC-DRNG seed")
        s1 == [state EXCEPT !.initially_seeded = 1]
        c2 == lc_kmac256_drng_encode(lc_kmac_update(c0, seed), initially_seeded, persbuf)
    IN  IF initret # 0 THEN [ret |-> initret, state |-> state]
        ELSE [ret |-> 0,
              state |-> [s1 EXCEPT !.key = lc_kmac_final_xof(c2, LC_KMAC256_DRNG_KEYSIZE).out]]

\* lc_xdrbg_drng_seed_nocheck; returns [ret, state]
lc_xdrbg_drng_seed_nocheck(state, seed, alpha, initret) ==
    LET initially_seeded == state.initially_seeded
        c0 == IF initially_seeded # 0 THEN lc_hash_init_v(state.key)
              ELSE lc_hash_init_v(NullKey)
        s1 == [state EXCEPT !.initially_seeded = 1]
        c2 == lc_xdrbg_drng_encode(lc_kmac_update(c0, seed),
                                   LC_XDRBG_DRNG_ENCODE_N(initially_seeded), alpha)
    IN  IF initret # 0 THEN [ret |-> initret, state |-> state]
        ELSE [ret |-> 0,
              state |-> [s1 EXCEPT !.key = lc_kmac_final_xof(c2, LC_XDRBG256_DRNG_KEYSIZE).out]]

\* The seed functions called with a null state pointer. A load or store
\* through the null pointer is undefined: segv tells whether the build and the
\* platform turn it into a fault or let it through, kept whether the build
\* keeps a test of the pointer that follows its first use. The result is
\* [end, ret, deref]: how the call ended, its return code, and whether the
\* pointer was dereferenced.

\* lc_kmac256_drng_seed_nocheck(NULL, ...): state->initially_seeded is loaded
\* in the declarations, the test of the pointer follows. A build that infers
\* from the load that the pointer is not null drops the test: the call goes
\* on to lc_kmac_init, stores the flag and the key through the pointer and
\* returns the code of lc_kmac_init
lc_kmac256_drng_seed_nocheck_null(segv, kept, initret) ==
    IF segv THEN [end |-> "SIGSEGV", ret |-> 0, deref |-> TRUE]
    ELSE IF kept THEN [end |-> "return", ret |-> 0 - EINVAL, deref |-> TRUE]
    ELSE [end |-> "return", ret |-> initret, deref |-> TRUE]

\* lc_xdrbg_drng_seed_nocheck(NULL, ...): lc_xdrbg_keysize(state) loads
\* state->status; the pointer is never tested, so a call that is not stopped
\* by a fault goes on to store the flag and V through it
lc_xdrbg_drng_seed_nocheck_null(segv, initret) ==
    IF segv THEN [end |-> "SIGSEGV", ret |-> 0, deref |-> TRUE]
    ELSE [end |-> "return", ret |-> initret, deref |-> TRUE]

\* lc_cc20_drng_seed(NULL, ...): the pointer is tested before its first use
lc_cc20_drng_seed_null ==
    [end |-> "return", ret |-> 0 - EINVAL, deref |-> FALSE]

\* a variant of zero that wipes the key but leaves the flag
zero_keeps_initially_seeded(state) == [state EXCEPT !.key = ZeroKey]

\* lc_kmac256_drng_zero / lc_xdrbg_drng_zero
lc_drng_zero(state) == [state EXCEPT !.key = ZeroKey, !.initially_seeded = 0]

(* ---- the caller of the DRNG ---- *)

MaxDrngOps == 4         \* calls per run
AlphaExtra == 1         \* bytes of the longest alpha beyond the encoded 84

DrngKinds == {"kmac", "xdrbg"}
DrngSeeds == {<<(<<1>>), (<<>>)>>, <<(<<2, 3>>), (<<4>>)>>,
              <<(<<1>>), Fill(LC_KMAC256_DRNG_ENCODE_LENGTH + AlphaExtra, 4)>>}
              \* seed, personalization
DrngAlphas == {<<>>, Fill(LC_KMAC256_DRNG_ENCODE_LENGTH, 7),
               Fill(LC_KMAC256_DRNG_ENCODE_LENGTH + AlphaExtra, 7)}
DrngChunk(kind) == IF kind = "kmac"
                   THEN LC_KMAC256_DRNG_MAX_CHUNK - LC_KMAC256_DRNG_KEYSIZE
                   ELSE LC_XDRBG256_DRNG_MAX_CHUNK
DrngOutLens(kind) == {0, 1, DrngChunk(kind) + 1}

\* return codes of one call of lc_kmac_init / lc_hash_init: success, or the
\* error of a hash that is not available
InitRets == {0, 0 - EOPNOTSUPP}

\* passes of the generate loop for a request of outlen bytes
NChunks(outlen, chunk) == (outlen + chunk - 1) \div chunk

\* the return codes of the initialisation calls of a loop of at most n passes:
\* every call succeeds, or the k-th call is the first to fail and the last
\* one made
InitRetSeqs(n) ==
    {[i \in 1..n |-> 0]} \cup
    {[i \in 1..k |-> IF i = k THEN 0 - EOPNOTSUPP ELSE 0] : k \in 1..n}

\* lc_kmac256_drng_alloc / lc_xdrbg256_drng_alloc: a zeroed instance
DrngAlloc(kind) == [kind |-> kind, key |-> ZeroKey, initially_seeded |-> 0]

InitDrng ==
    /\ GateIdle
    \* the vectors of the KMAC DRNG self-test match or not; XDRBG has none
    /\ kat_ok \in [AlgIds -> BOOLEAN]
    /\ \A id \in AlgIds \ {"KMAC_DRBG"} : kat_ok[id]
    /\ AeadIdle
    /\ SpongeIdle
    /\ CpuIdle
    /\ DispIdle
    /\ MemIdle
    /\ \E kind \in DrngKinds : rng = DrngAlloc(kind)
    /\ rng.kind = "xdrbg" => kat_ok["KMAC_DRBG"]
    /\ dinit = <<>>
    /\ dlog = <<>>
    /\ dout = <<>>
    /\ dret = 0
    /\ dops = 0
    /\ dprev = rng
    /\ dlast = DrngNoCall
    /\ dtwin = [state |-> rng, out |-> <<>>, wiped |-> rng]

\* lc_kmac256_drng_seed: kmac256_drng_selftest, LC_SELFTEST_COMPLETED, then
\* lc_kmac256_drng_seed_nocheck.  G is [st, runs]; ok: do the vectors match
lc_kmac256_drng_seed(state, G, seed, persbuf, initret, ok) ==
    LET G1 == selftest_atomic(G, "KMAC_DRBG", ok)
    IN  IF ~LC_SELFTEST_COMPLETED(G1.st, "KMAC_DRBG")
        THEN [state |-> state, ret |-> 0 - EOPNOTSUPP, G |-> G1]
        ELSE LET R == lc_kmac256_drng_seed_nocheck(state, seed, persbuf, initret)
             IN  [state |-> R.state, ret |-> R.ret, G |-> G1]

\* seed of the instance of this run: lc_kmac256_drng_seed, or
\* lc_xdrbg_drng_seed_nocheck, which has no self-test in front of it
DrngSeed(state, G, sd, initret) ==
    IF state.kind = "kmac"
    THEN lc_kmac256_drng_seed(state, G, sd[1], sd[2], initret, kat_ok["KMAC_DRBG"])
    ELSE LET R == lc_xdrbg_drng_seed_nocheck(state, sd[1], sd[2], initret)
         IN  [state |-> R.state, ret |-> R.ret, G |-> G]

\* the status registry as the seed entry points see it
Registry == [st |-> alg_status, runs |-> kat_runs]

\* generate of the instance of this run, the state pointer being ptr
DrngGenerate(kind, ptr, alpha, outlen, initrets) ==
    IF kind = "kmac"
    THEN lc_kmac256_drng_generate(ptr, alpha, outlen, initrets)
    ELSE lc_xdrbg_drng_generate(ptr, alpha, outlen, initrets)

DSeed ==
    /\ dops < MaxDrngOps
    /\ \E sd \in DrngSeeds, initret \in InitRets :
        LET R == DrngSeed(rng, Registry, sd, initret)
            gated == rng.kind = "kmac" /\ ~LC_SELFTEST_COMPLETED(R.G.st, "KMAC_DRBG")
        IN  \* a call stopped at the gate does not reach lc_kmac_init
            /\ gated => initret = 0
            /\ rng' = R.state
            /\ dret' = R.ret
            /\ alg_status' = R.G.st
            /\ kat_runs' = R.G.runs
            /\ dinit' = IF gated THEN <<>> ELSE <<initret>>
            /\ dtwin' = [dtwin EXCEPT
                           !.state = DrngSeed(dtwin.state, Registry, sd, initret).state]
            /\ dlast' = [DrngNoCall EXCEPT !.op = "seed", !.fn = rng.kind, !.sd = sd]
    /\ dprev' = rng
    /\ dlog' = <<>>
    /\ dops' = dops + 1
    /\ UNCHANGED <<notDG, dout>>

\* seed called with a null state pointer; a fault ends the run.  The KMAC
\* entry point runs its self-test and gate before lc_kmac256_drng_seed_nocheck
\* sees the pointer
DSeedNull ==
    /\ dops < MaxDrngOps
    /\ \E fn \in {rng.kind, "cc20"}, segv \in BOOLEAN, kept \in BOOLEAN,
          initret \in InitRets :
        LET G1 == IF fn = "kmac"
                  THEN selftest_atomic(Registry, "KMAC_DRBG", kat_ok["KMAC_DRBG"])
                  ELSE Registry
            R == IF fn = "kmac"
                 THEN IF ~LC_SELFTEST_COMPLETED(G1.st, "KMAC_DRBG")
                      THEN [end |-> "return", ret |-> 0 - EOPNOTSUPP, deref |-> FALSE]
                      ELSE lc_kmac256_drng_seed_nocheck_null(segv, kept, initret)
                 ELSE IF fn = "xdrbg"
                      THEN lc_xdrbg_drng_seed_nocheck_null(segv, initret)
                      ELSE lc_cc20_drng_seed_null
            called == \/ fn = "xdrbg" /\ ~segv
                      \/ /\ fn = "kmac"
                         /\ LC_SELFTEST_COMPLETED(G1.st, "KMAC_DRBG")
                         /\ ~segv
                         /\ ~kept
        IN  \* XDRBG reaches lc_hash_init with a null state, KMAC reaches
            \* lc_kmac_init when the test of the pointer is dropped
            /\ ~called => initret = 0
            /\ (fn # "kmac" \/ segv) => kept
            /\ dinit' = IF called THEN <<initret>> ELSE <<>>
            /\ alg_status' = G1.st
            /\ kat_runs' = G1.runs
            /\ dret' = IF R.end = "return" THEN R.ret ELSE dret
            /\ dops' = IF R.end = "return" THEN dops + 1 ELSE MaxDrngOps
            /\ dlast' = [DrngNoCall EXCEPT !.op = "seed", !.fn = fn, !.ptr = "NULL",
                                           !.end = R.end, !.deref = R.deref]
    /\ dprev' = rng
    /\ dlog' = <<>>
    /\ UNCHANGED <<notDG, rng, dout, dtwin>>

DGenerate ==
    /\ dops < MaxDrngOps
    /\ \E alpha \in DrngAlphas, outlen \in DrngOutLens(rng.kind), ptr \in {rng, NULL} :
      \E initrets \in InitRetSeqs(IF ptr = NULL THEN 0
                                  ELSE NChunks(outlen, DrngChunk(rng.kind))) :
        LET G == DrngGenerate(rng.kind, ptr, alpha, outlen, initrets)
            T == DrngGenerate(rng.kind, IF ptr = NULL THEN NULL ELSE dtwin.state,
                              alpha, outlen, initrets)
        IN  \* a null state is refused before alpha and outlen are looked at
            /\ ptr = NULL => (alpha = <<>> /\ outlen = 1)
            /\ dinit' = initrets
            /\ rng' = IF ptr = NULL THEN rng ELSE G.state
            /\ dret' = G.ret
            /\ dlog' = G.log
            /\ dout' = dout \o G.out
            /\ dtwin' = [dtwin EXCEPT
                             !.state = IF ptr = NULL THEN dtwin.state ELSE T.state,
                             !.out = dtwin.out \o T.out]
            /\ dlast' = [DrngNoCall EXCEPT !.op = "generate", !.fn = rng.kind,
                                           !.alpha = alpha,
                                           !.ptr = IF ptr = NULL THEN "NULL" ELSE "state",
                                           !.outlen = outlen, !.written = G.out]
    /\ dprev' = rng
    /\ dops' = dops + 1
    /\ UNCHANGED notD

\* zero; the twin is from here on a newly allocated instance
DZero ==
    /\ dops < MaxDrngOps
    /\ rng' = lc_drng_zero(rng)
    /\ dtwin' = [state |-> DrngAlloc(rng.kind), out |-> <<>>, wiped |-> rng]
    /\ dlast' = [DrngNoCall EXCEPT !.op = "zero", !.fn = rng.kind]
    /\ dprev' = rng
    /\ dlog' = <<>>
    /\ dout' = <<>>
    /\ dret' = 0
    /\ dinit' = <<>>
    /\ dops' = dops + 1
    /\ UNCHANGED notD

NextDrng ==
    \/ DSeed
    \/ DSeedNull
    \/ DGenerate
    \/ DZero

SpecDrng == InitDrng /\ [][NextDrng]_vars

\* C6: in every chunk of a generate call the key held in the state when the
\* chunk's bytes are written is already K(N+1), the first key-size bytes of
\* the context keyed with K(N), and the chunk's bytes are squeezed after
\* them; when generate returns after releasing bytes the state holds that
\* next key, which is not a key under which released bytes were produced.
C6_KeyErasedBeforeOutput ==
    /\ \A i \in DOMAIN dlog :
          /\ dlog[i].ctx.k = dlog[i].before
          /\ dlog[i].held = XofOut([dlog[i].ctx EXCEPT !.squeezed = 0],
                                   LC_KMAC256_DRNG_KEYSIZE)
          /\ dlog[i].held # dlog[i].ctx.k
          /\ dlog[i].ctx.squeezed = LC_KMAC256_DRNG_KEYSIZE
    /\ dlog # <<>> =>
          /\ rng.key = dlog[Len(dlog)].held
          /\ \A i \in DOMAIN dout : dout[i].by # rng.key

\* a seeded instance has served a request in two chunks after an earlier
\* generate call
C6_Witness ==
    /\ Len(dlog) = 2
    /\ Len(dout) >= 3
    /\ dret = 0
    /\ rng.initially_seeded = 1
    /\ dout[1].by # ZeroKey

\* C13: when a generate call returns an error, it has written no byte to the
\* output buffer and the DRNG state (key / V, initially_seeded) is the state
\* before the call, whatever the requested length.
C13_FailedGenerateNoOutputNoChange ==
    (dlast.op = "generate" /\ dret # 0) =>
        /\ dlast.written = <<>>
        /\ rng = dprev

\* C15: a successful seed of an instance whose initially_seeded flag is clear
\* derives the new key from a context that absorbed the seed and the encoded
\* personalization but not the bytes of the key field, and sets the flag; a
\* successful seed of an instance whose flag is set absorbs the current key
\* ahead of the seed; the flag, once set, is cleared by zero only.
C15_SeedAbsorbsKeyOnlyWhenSeeded ==
    /\ (dlast.op = "seed" /\ dlast.ptr = "state" /\ dret = 0) =>
          /\ rng.initially_seeded = 1
          /\ rng.key[1] = "xof"
          /\ rng.key[2] = (IF dprev.initially_seeded = 0 THEN NullKey ELSE dprev.key)
          /\ SubSeq(rng.key[4], 1, Len(dlast.sd[1])) = dlast.sd[1]
          /\ SubSeq(rng.key[4], Len(dlast.sd[1]) + 1, Len(rng.key[4]) - 1) =
                SubSeq(dlast.sd[2], 1,
                       min_size(Len(dlast.sd[2]), LC_KMAC256_DRNG_ENCODE_LENGTH))
    /\ (dprev.initially_seeded = 1 /\ dlast.op # "zero") => rng.initially_seeded = 1

\* an instance that served an unseeded generate call, so that its key field
\* holds bytes, was seeded for the first time and then reseeded
C15_Witness ==
    /\ dlast.op = "seed"
    /\ dlast.ptr = "state"
    /\ dret = 0
    /\ dprev.initially_seeded = 1
    /\ rng.key[2] = dprev.key
    /\ dprev.key[2] = NullKey
    /\ dout # <<>>

\* the encoding byte: the last byte a context absorbed
EncodeByte(msg) == msg[Len(msg)]

\* the encoding the claim states for call class n and string alpha
EncodeRef(n, alpha) == n * 85 + min_size(Len(alpha), 84)

\* C16: the encoding byte absorbed after the personalization / additional
\* input is n * 85 + min(|alpha|, 84), with n = 0 on the first seed, n = 1 on
\* a reseed and n = 2 in every chunk of generate; it is at most 254 and its
\* quotient by 85 is n, so that the three ranges do not meet.
C16_EncodeByte ==
    /\ (dlast.op = "seed" /\ dlast.ptr = "state" /\ dret = 0) =>
          /\ EncodeByte(rng.key[4]) = EncodeRef(dprev.initially_seeded, dlast.sd[2])
          /\ EncodeByte(rng.key[4]) <= 254
          /\ EncodeByte(rng.key[4]) \div 85 = dprev.initially_seeded
    /\ \A i \in DOMAIN dlog :
          /\ EncodeByte(dlog[i].ctx.msg) = EncodeRef(2, dlast.alpha)
          /\ EncodeByte(dlog[i].ctx.msg) <= 254
          /\ EncodeByte(dlog[i].ctx.msg) \div 85 = 2

\* a request of two chunks with an additional input longer than 84 bytes was
\* served by an instance that had been reseeded with a personalization
\* longer than 84 bytes
C16_Witness ==
    /\ dlast.op = "generate"
    /\ Len(dlast.alpha) > LC_KMAC256_DRNG_ENCODE_LENGTH
    /\ Len(dlog) = 2
    /\ EncodeByte(dlog[2].ctx.msg) = 254
    /\ dprev.initially_seeded = 1
    /\ dprev.key[1] = "xof"
    /\ EncodeByte(dprev.key[4]) = 169

\* C17: zero wipes the key / V and clears initially_seeded; from zero on, the
\* instance is in the state of a newly allocated instance that was given the
\* same seed and generate calls, and the bytes it has released since are the
\* bytes the new instance releases.
C17_ZeroThenSeedIsFresh ==
    /\ dlast.op = "zero" =>
          /\ rng.key = ZeroKey
          /\ rng.initially_seeded = 0
    /\ rng = dtwin.state
    /\ dout = dtwin.out

\* an instance that had been seeded and had released bytes was zeroed, seeded
\* again and has served a generate call
C17_Witness ==
    /\ dlast.op = "generate"
    /\ dlast.ptr = "state"
    /\ dret = 0
    /\ dout # <<>>
    /\ dops = MaxDrngOps
    /\ dprev.initially_seeded = 1
    /\ dprev.key[2] = NullKey
    /\ dtwin.out = dout
    /\ dtwin.wiped.initially_seeded = 1

\* C14: seed of the KMAC-DRNG, of XDRBG and of the ChaCha20-DRNG called with
\* a null state pointer returns -EINVAL and has neither read nor written
\* through the pointer.
C14_SeedNullStateEinval ==
    (dlast.op = "seed" /\ dlast.ptr = "NULL") =>
        /\ dlast.end = "return"
        /\ dret = 0 - EINVAL
        /\ ~dlast.deref

-----------------------------------------------------------------------------
(* ============================ ChaCha20 DRNG ============================ *)

\* sizes of the ChaCha20 state, in bytes and in 32-bit words
LC_CC20_BLOCK_SIZE == 64
LC_CC20_KEY_SIZE == 32
LC_CC20_BLOCK_SIZE_WORDS == 16
LC_CC20_KEY_SIZE_WORDS == 8

\* A uint32_t is kept as two 16-bit halves [hi, lo]
HalfMod == 65536
U32(hi, lo) == [hi |-> hi, lo |-> lo]
U32Zero == U32(0, 0)
U32Max == U32(HalfMod - 1, HalfMod - 1)

\* w++ on a uint32_t
U32Inc(w) ==
    IF w.lo = HalfMod - 1 THEN U32((w.hi + 1) % HalfMod, 0)
    ELSE U32(w.hi, w.lo + 1)

\* a variant of the nonce increment that never carries into word 3
cc20_nonce_inc_no_carry3(counter) ==
    LET c1 == U32Inc(counter[2])
    IN  IF c1 = U32Zero
        THEN [counter EXCEPT ![2] = c1, ![3] = U32Inc(@)]
        ELSE [counter EXCEPT ![2] = c1]

\* counter[1]++; if (counter[1] == 0) { counter[2]++; if (counter[2] == 0)
\* counter[3]++; }   (counter[k] of the source is counter[k + 1] here)
cc20_nonce_inc(counter) ==
    LET c1 == U32Inc(counter[2])
        c2 == U32Inc(counter[3])
    IN  IF c1 = U32Zero
        THEN IF c2 = U32Zero
             THEN [counter EXCEPT ![2] = c1, ![3] = c2, ![4] = U32Inc(@)]
             ELSE [counter EXCEPT ![2] = c1, ![3] = c2]
        ELSE [counter EXCEPT ![2] = c1]

\* cc20_block: one keystream block of the state, as the term of key and
\* counter words, and the block counter advanced by one. Returns [st, blk]
cc20_block(st) ==
    [st |-> [st EXCEPT !.counter[1] = U32Inc(@)],
     blk |-> <<"blk", st.key, st.counter>>]

\* lc_cc20_drng_update; buf is the block generate left in aligned_buf
lc_cc20_drng_update(st, buf, used_words) ==
    LET b == cc20_block(st)
        s1 == IF used_words > LC_CC20_KEY_SIZE_WORDS
              THEN [b.st EXCEPT !.key = <<"xor", @, b.blk, 0>>]
              ELSE [st EXCEPT !.key = <<"xor", @, buf, used_words>>]
    IN  [s1 EXCEPT !.counter = cc20_nonce_inc(@)]

\* the blocks of the while loop of lc_cc20_drng_generate
RECURSIVE cc20_full_blocks(_, _)
cc20_full_blocks(G, outbuflen) ==
    IF outbuflen < LC_CC20_BLOCK_SIZE THEN G
    ELSE LET b == cc20_block(G.st)
         IN  cc20_full_blocks([st |-> b.st, out |-> Append(G.out, b.blk),
                               buf |-> b.blk],
                              outbuflen - LC_CC20_BLOCK_SIZE)

\* lc_cc20_drng_generate; returns [st, out, log], log holding the state before
\* and after the call of lc_cc20_drng_update
lc_cc20_drng_generate(st, outbuflen) ==
    LET G == cc20_full_blocks([st |-> st, out |-> <<>>, buf |-> <<"junk">>],
                              outbuflen)
        rem == outbuflen % LC_CC20_BLOCK_SIZE
        b == cc20_block(G.st)
        G1 == IF rem # 0
              THEN [st |-> b.st, out |-> Append(G.out, <<"part", b.blk, rem>>),
                    buf |-> b.blk]
              ELSE G
        used == IF rem # 0 THEN (rem + 3) \div 4 ELSE LC_CC20_BLOCK_SIZE_WORDS
        u == lc_cc20_drng_update(G1.st, G1.buf, used)
    IN  [st |-> u, out |-> G1.out,
         log |-> <<[before |-> G1.st, after |-> u, used |-> used]>>]

\* the loop of lc_cc20_drng_seed: every chunk of at most LC_CC20_KEY_SIZE
\* bytes is XORed into the key, then the state is updated. Returns [st, log]
RECURSIVE cc20_seed_loop(_, _)
cc20_seed_loop(S, inbuf) ==
    IF inbuf = <<>> THEN S
    ELSE LET todo == min_size(Len(inbuf), LC_CC20_KEY_SIZE)
             s1 == [S.st EXCEPT !.key = <<"seed", @, SubSeq(inbuf, 1, todo)>>]
             u == lc_cc20_drng_update(s1, <<"null">>, LC_CC20_BLOCK_SIZE_WORDS)
         IN  cc20_seed_loop(
                 [st |-> u,
                  log |-> Append(S.log, [before |-> s1, after |-> u,
                                         used |-> LC_CC20_BLOCK_SIZE_WORDS])],
                 SubSeq(inbuf, todo + 1, Len(inbuf)))

\* lc_cc20_drng_seed on a non-null context: cc20_drng_selftest,
\* LC_SELFTEST_COMPLETED, then the loop.  G is [st, runs]; ok: does the block
\* of the self-test match.  Returns [st, log, ret, G]
lc_cc20_drng_seed(st, G, inbuf, ok) ==
    LET G1 == selftest_atomic(G, "CHACHA20_DRNG", ok)
    IN  IF ~LC_SELFTEST_COMPLETED(G1.st, "CHACHA20_DRNG")
        THEN [st |-> st, log |-> <<>>, ret |-> 0 - EOPNOTSUPP, G |-> G1]
        ELSE LET R == cc20_seed_loop([st |-> st, log |-> <<>>], inbuf)
             IN  [st |-> R.st, log |-> R.log, ret |-> 0, G |-> G1]

(* ---- the caller of the ChaCha20 DRNG ---- *)

MaxCc20Ops == 2         \* calls per run

\* values of a counter word at and next to the wrap-around
Cc20Words == {U32Zero, U32(0, HalfMod - 1), U32(HalfMod - 1, HalfMod - 2), U32Max}
Cc20Seeds == {<<>>, <<1>>, Fill(LC_CC20_KEY_SIZE + 1, 2)}
Cc20OutLens == {0, 1, LC_CC20_KEY_SIZE, LC_CC20_KEY_SIZE + 1, LC_CC20_BLOCK_SIZE,
                LC_CC20_BLOCK_SIZE + 1}

InitCc20 ==
    /\ GateIdle
    /\ kat_ok \in [AlgIds -> BOOLEAN]
    /\ \A id \in AlgIds \ {"CHACHA20_DRNG"} : kat_ok[id]
    /\ AeadIdle
    /\ SpongeIdle
    /\ CpuIdle
    /\ DispIdle
    /\ MemIdle
    /\ \E w0 \in {U32Zero, U32Max}, w1 \in Cc20Words, w2 \in {U32Zero, U32Max},
          w3 \in {U32Zero, U32Max} :
          rng = [kind |-> "cc20", key |-> ZeroKey, counter |-> <<w0, w1, w2, w3>>]
    /\ dinit = <<>>
    /\ dlog = <<>>
    /\ dout = <<>>
    /\ dret = 0
    /\ dops = 0
    /\ dprev = rng
    /\ dlast = DrngNoCall
    /\ dtwin = [state |-> rng, out |-> <<>>, wiped |-> rng]

Cc20Seed ==
    /\ dops < MaxCc20Ops
    /\ \E inbuf \in Cc20Seeds :
        LET R == lc_cc20_drng_seed(rng, Registry, inbuf, kat_ok["CHACHA20_DRNG"])
        IN  /\ rng' = R.st
            /\ dlog' = R.log
            /\ dret' = R.ret
            /\ alg_status' = R.G.st
            /\ kat_runs' = R.G.runs
            /\ dlast' = [DrngNoCall EXCEPT !.op = "seed", !.fn = "cc20", !.sd = inbuf]
    /\ dprev' = rng
    /\ dops' = dops + 1
    /\ UNCHANGED <<notDG, dinit, dout, dtwin>>

Cc20Generate ==
    /\ dops < MaxCc20Ops
    /\ \E outlen \in Cc20OutLens :
        LET R == lc_cc20_drng_generate(rng, outlen)
        IN  /\ rng' = R.st
            /\ dlog' = R.log
            /\ dout' = dout \o R.out
            /\ dlast' = [DrngNoCall EXCEPT !.op = "generate", !.fn = "cc20",
                                           !.outlen = outlen, !.written = R.out]
    /\ dret' = 0
    /\ dprev' = rng
    /\ dops' = dops + 1
    /\ UNCHANGED <<notD, dinit, dtwin>>

NextCc20 ==
    \/ Cc20Seed
    \/ Cc20Generate

SpecCc20 == InitCc20 /\ [][NextCc20]_vars

\* the 96-bit little-endian number held in counter words 1..3, as six 16-bit
\* limbs, least significant first
Nonce96(counter) ==
    <<counter[2].lo, counter[2].hi, counter[3].lo, counter[3].hi,
      counter[4].lo, counter[4].hi>>

\* limbs + 1 modulo 2^(16 * Len(limbs))
RECURSIVE LimbsInc(_)
LimbsInc(limbs) ==
    IF limbs = <<>> THEN <<>>
    ELSE IF Head(limbs) = HalfMod - 1 THEN <<0>> \o LimbsInc(Tail(limbs))
    ELSE <<Head(limbs) + 1>> \o Tail(limbs)

\* C21 (nonce): every call of lc_cc20_drng_update adds exactly one to the
\* 96-bit little-endian nonce of counter words 1..3, with the carries.
C21_NonceIncrementedByOne ==
    \A i \in DOMAIN dlog :
        rng.kind = "cc20" =>
            Nonce96(dlog[i].after.counter) = LimbsInc(Nonce96(dlog[i].before.counter))

\* an update carried from word 1 through word 2 into word 3
C21_Witness ==
    /\ rng.kind = "cc20"
    /\ dlog # <<>>
    /\ dlog[1].before.counter[2] = U32Max
    /\ dlog[1].before.counter[3] = U32Max
    /\ dlog[1].before.counter[4] = U32Zero
    /\ dlog[1].after.counter[4] = U32(0, 1)

\* C21: every call of lc_cc20_drng_update adds one to the 96-bit nonce and
\* leaves the block-counter word 0 with the value it had before the call.
C21_UpdateLeavesBlockCounter ==
    \A i \in DOMAIN dlog :
        rng.kind = "cc20" =>
            /\ Nonce96(dlog[i].after.counter) = LimbsInc(Nonce96(dlog[i].before.counter))
            /\ dlog[i].after.counter[1] = dlog[i].before.counter[1]

-----------------------------------------------------------------------------
(* ============ gated entry points called by concurrent threads ========== *)

MaxCalls == 2           \* calls per thread

\* the entry points and the algorithm id each belongs to
OpId ==
    [seed |-> "KMAC_DRBG", generate |-> "KMAC_DRBG",
     sign |-> "MLDSA_SIGGEN", sign_init |-> "MLDSA_SIGGEN",
     sign_update |-> "MLDSA_SIGGEN", sign_final |-> "MLDSA_SIGGEN",
     keypair |-> "X25519_KEYGEN", sha3_init |-> "SHA3"]
Ops == DOMAIN OpId

\* entry points that write output to the caller; an instance initialised by
\* sha3_224_riscv_asm_rvv_init goes on to hash, update and final having no test
OutputOps == {"generate", "sign", "sign_final", "keypair", "sha3_init"}

\* what a caller at LC_SELFTEST_COMPLETED does: it waits while another
\* thread runs the self-test, proceeds on passed, fails otherwise
GateOf(st, id) ==
    IF st[id] = "running" THEN "wait"
    ELSE IF LC_SELFTEST_COMPLETED(st, id) THEN "go" ELSE "fail"

\* what a thread does that finds the cell running at LC_SELFTEST_RUN, another
\* thread having won the compare-and-set: it skips the vectors and waits for
\* the winner's result at LC_SELFTEST_COMPLETED, or it executes the vectors
\* itself
LoserChoices == {"wait", "rerun"}

\* a self-test that executes its vectors whenever no other thread is
\* executing them, a latched result notwithstanding
selftest_run_unless_running(st) == st["KMAC_DRBG"] # "running"

\* kmac256_drng_selftest: are the vectors executed by this call
kmac256_drng_selftest(st) == LC_SELFTEST_RUN(st, "KMAC_DRBG")

\* lc_x25519_keypair_selftest: are the vectors executed by this call
lc_x25519_keypair_selftest(st) == LC_SELFTEST_RUN(st, "X25519_KEYGEN")

\* dilithium_siggen_tester: are the vectors executed by this call
dilithium_siggen_tester(st) == LC_SELFTEST_RUN(st, "MLDSA_SIGGEN")

\* lc_kmac256_drng_seed at its LC_SELFTEST_COMPLETED line: the gate between
\* the self-test and the seeding
kmac_seed_gate(st) == GateOf(st, "KMAC_DRBG")

\* lc_x25519_keypair: the gate between the self-test and the key generation
lc_x25519_keypair(st) == GateOf(st, "X25519_KEYGEN")

\* lc_dilithium_sign, lc_dilithium_sign_init: the gate before signing
lc_dilithium_sign_init(st) == GateOf(st, "MLDSA_SIGGEN")

\* lc_kmac256_drng_generate, lc_dilithium_sign_update, lc_dilithium_sign_final:
\* no self-test and no LC_SELFTEST_COMPLETED
GatedOps == {"seed", "sign", "sign_init", "keypair"}

\* entry points that run a self-test on first use.
\* sha3_224_riscv_asm_rvv_init calls sha3_224_selftest_common with the address
\* of its static int tested, then sha3_224_init_common: it returns void and
\* has no LC_SELFTEST_COMPLETED
SelftestOps == GatedOps \cup {"sha3_init"}

SelftestEnters(op, st) ==
    CASE op = "seed" -> kmac256_drng_selftest(st)
      [] op = "keypair" -> lc_x25519_keypair_selftest(st)
      [] OTHER -> dilithium_siggen_tester(st)

GateResult(op, st) ==
    CASE op = "seed" -> kmac_seed_gate(st)
      [] op = "keypair" -> lc_x25519_keypair(st)
      [] OTHER -> lc_dilithium_sign_init(st)

\* how far the self-test of the primitive of op has come, as the registry
\* cell tells it or, for sha3_init, as tested and the executed vectors tell it
SelftestState(op) ==
    IF op = "sha3_init"
    THEN IF tested.done THEN "passed"
         ELSE IF tested.val # 0 THEN "running" ELSE "unset"
    ELSE alg_status[OpId[op]]

\* the vectors of the SHA3-224 implementation match in the runs considered:
\* what sha3_224_selftest_common does on a mismatch is not decided by
\* sha3_224_riscv_asm_rvv_init
InitGate ==
    /\ GateIdle
    /\ kat_ok \in [AlgIds -> BOOLEAN]
    /\ kat_ok["HASH_CRYPT"]
    /\ kat_ok["CHACHA20_DRNG"]
    /\ kat_ok["SHA3"]
    \* the cells of different ids do not interact: the vectors of at most
    \* one id mismatch in a run
    /\ Cardinality({id \in AlgIds : ~kat_ok[id]}) <= 1
    /\ AeadIdle
    /\ SpongeIdle
    /\ DrngIdle
    /\ CpuIdle
    /\ DispIdle
    /\ MemIdle

\* a thread enters an entry point. lc_dilithium_sign_update and
\* lc_dilithium_sign_final dispatch to the implementation whatever
\* lc_dilithium_sign_init has returned, and also when it was never called
TCall(t) ==
    /\ th[t].pc = "idle"
    /\ th[t].n < MaxCalls
    /\ \E op \in Ops :
        th' = [th EXCEPT ![t].op = op,
                        ![t].pc = IF op \in SelftestOps THEN "selftest" ELSE "body"]
    /\ UNCHANGED <<gvars, glog, gcalls, tested, notT>>

\* LC_SELFTEST_RUN at the head of the self-test function: the thread that
\* moves the cell from unset to running executes the vectors; a thread that
\* finds it running does one of LoserChoices; a thread that finds a result
\* skips the vectors
TSelftestRun(t) ==
    /\ th[t].pc = "selftest"
    /\ th[t].op \in GatedOps
    /\ IF SelftestEnters(th[t].op, alg_status)
       THEN /\ alg_status' = [alg_status EXCEPT ![OpId[th[t].op]] = "running"]
            /\ th' = [th EXCEPT ![t].pc = "kat"]
       ELSE /\ \E c \in LoserChoices :
                th' = [th EXCEPT ![t].pc =
                          IF alg_status[OpId[th[t].op]] = "running" /\ c = "rerun"
                          THEN "kat" ELSE "completed"]
            /\ UNCHANGED alg_status
    /\ UNCHANGED <<kat_ok, kat_runs, glog, gcalls, tested, notT>>

\* sha3_224_selftest_common(impl, &tested, ...): tested is read; when it is
\* set the vectors are skipped and sha3_224_init_common follows at once
TTestedLoad(t) ==
    /\ th[t].pc = "selftest"
    /\ th[t].op = "sha3_init"
    /\ th' = [th EXCEPT ![t].pc = IF tested.val # 0 THEN "body" ELSE "tested_store"]
    /\ UNCHANGED <<gvars, glog, gcalls, tested, notT>>

\* tested is set before the vectors are executed: they are hashed by the
\* implementation under test, lc_sha3_224_riscv_asm_rvv, whose .init is
\* sha3_224_riscv_asm_rvv_init itself: the nested call must find tested set.
\* tested is a plain int: the read and this write are two accesses
TTestedStore(t) ==
    /\ th[t].pc = "tested_store"
    /\ tested' = [tested EXCEPT !.val = 1]
    /\ th' = [th EXCEPT ![t].pc = "kat"]
    /\ UNCHANGED <<gvars, glog, gcalls, notT>>

\* the vectors are executed and lc_compare_selftest latches the result; after
\* the vectors of sha3_init the function goes on to sha3_224_init_common
TKat(t) ==
    /\ th[t].pc = "kat"
    /\ LET id == OpId[th[t].op]
       IN  /\ kat_runs' = [kat_runs EXCEPT ![id] = @ + 1]
           /\ IF th[t].op = "sha3_init"
              THEN /\ tested' = [tested EXCEPT !.done = TRUE]
                   /\ th' = [th EXCEPT ![t].pc = "body"]
                   /\ UNCHANGED alg_status
              ELSE /\ alg_status' = lc_compare_selftest(alg_status, id, kat_ok[id])
                   /\ th' = [th EXCEPT ![t].pc = "completed"]
                   /\ UNCHANGED tested
    /\ UNCHANGED <<kat_ok, glog, gcalls, notT>>

\* LC_SELFTEST_COMPLETED in the entry point: unless the status is passed the
\* call returns -EOPNOTSUPP without reaching its body
TCompleted(t) ==
    /\ th[t].pc = "completed"
    /\ LET g == GateResult(th[t].op, alg_status)
       IN  /\ g # "wait"
           /\ th' = IF g = "go" THEN [th EXCEPT ![t].pc = "body"]
                    ELSE [th EXCEPT ![t].pc = "idle", ![t].op = "none", ![t].n = @ + 1]
    /\ UNCHANGED <<gvars, glog, gcalls, tested, notT>>

\* the body of the entry point: the primitive runs and returns success
TBody(t) ==
    /\ th[t].pc = "body"
    /\ LET op == th[t].op
           id == OpId[op]
       IN  /\ glog' = IF op \in OutputOps
                      THEN glog \cup {[op |-> op, id |-> id, st |-> SelftestState(op)]}
                      ELSE glog
           /\ gcalls' = IF op \in SelftestOps THEN [gcalls EXCEPT ![id] = @ + 1]
                        ELSE gcalls
           /\ th' = [th EXCEPT ![t].pc = "idle", ![t].op = "none", ![t].n = @ + 1]
    /\ UNCHANGED <<gvars, tested, notT>>

NextGate ==
    \/ \E t \in Threads : TCall(t)
    \/ \E t \in Threads : TSelftestRun(t)
    \/ \E t \in Threads : TTestedLoad(t)
    \/ \E t \in Threads : TTestedStore(t)
    \/ \E t \in Threads : TKat(t)
    \/ \E t \in Threads : TCompleted(t)
    \/ \E t \in Threads : TBody(t)

SpecGate == InitGate /\ [][NextGate]_vars

\* C7: once an id is latched failed no entry point of that primitive writes
\* output: every output was written while the status was not failed.
C7_NoOutputOnceFailed ==
    \A e \in glog : e.st # "failed"

C9_LatchMonotonic ==
    /\ [](\A e \in glog : e.op \in SelftestOps => e.st = "passed")
    /\ [][/\ \A id \in AlgIds :
               \/ alg_status'[id] = alg_status[id]
               \/ alg_status[id] = "unset" /\ alg_status'[id] = "running"
               \/ alg_status[id] = "running" /\ alg_status'[id] \in {"passed", "failed"}
          /\ tested'.val >= tested.val]_vars

-----------------------------------------------------------------------------
(* ========================= CPU feature detector ======================== *)

MaxCpuCalls == 1        \* lc_cpu_feature_available calls per thread
MaxForced == 1          \* calls of the test-only API per run

\* what arm_id_aa64isar0_el1_feature can report
HwCaps == {{}, {"AES"}, {"AES", "SHA2", "SHA3", "PMULL"},
           {"AES", "SHA2", "SHA2_512", "SHA3", "PMULL"}}

\* the feature bit set for each bit of the id register
FeatureOf ==
    [AES |-> "ARM_AES", SHA2 |-> "ARM_SHA2", SHA2_512 |-> "ARM_SHA2_512",
     SHA3 |-> "ARM_SHA3", PMULL |-> "ARM_PMULL"]

\* the order of the conditional statements of lc_cpu_feature_available
NextPc ==
    [AES |-> "SHA2", SHA2 |-> "SHA2_512", SHA2_512 |-> "SHA3", SHA3 |-> "PMULL",
     PMULL |-> "ret"]

\* the value a complete detection leaves in features
DetectedSet(isar) == {"ARM", "ARM_NEON"} \cup {FeatureOf[b] : b \in isar}

InitCpu ==
    /\ GateIdle
    /\ kat_ok = [id \in AlgIds |-> TRUE]
    /\ AeadIdle
    /\ SpongeIdle
    /\ DrngIdle
    /\ features = LC_CPU_FEATURE_UNSET
    /\ hwcap \in HwCaps
    /\ cth = [t \in Threads |-> CpuThreadIdle]
    /\ crets = {}
    /\ cforced = {}
    /\ DispIdle
    /\ MemIdle

\* a thread calls lc_cpu_feature_available
CCall(t) ==
    /\ cth[t].pc = "idle"
    /\ cth[t].n < MaxCpuCalls
    /\ cth' = [cth EXCEPT ![t].pc = "check"]
    /\ UNCHANGED <<features, hwcap, crets, cforced, notC>>

\* if (features == LC_CPU_FEATURE_UNSET): read the id register
CCheck(t) ==
    /\ cth[t].pc = "check"
    /\ cth' = IF features = LC_CPU_FEATURE_UNSET
              THEN [cth EXCEPT ![t].pc = "base", ![t].isar = hwcap]
              ELSE [cth EXCEPT ![t].pc = "ret"]
    /\ UNCHANGED <<features, hwcap, crets, cforced, notC>>

\* features = LC_CPU_FEATURE_ARM | LC_CPU_FEATURE_ARM_NEON
CBase(t) ==
    /\ cth[t].pc = "base"
    /\ features' = {"ARM", "ARM_NEON"}
    /\ cth' = [cth EXCEPT ![t].pc = "AES"]
    /\ UNCHANGED <<hwcap, crets, cforced, notC>>

\* if (id_aa64isar0_el1_val & bit) features |= feature: the test of the bit
\* and, when it is set, the load of features.  features is a plain static
\* variable, so the load and the store of |= are two accesses between which
\* the other thread can write
CFlag(t) ==
    /\ cth[t].pc \in DOMAIN FeatureOf
    /\ ~cth[t].st
    /\ cth' = IF cth[t].pc \in cth[t].isar
              THEN [cth EXCEPT ![t].tmp = features, ![t].st = TRUE]
              ELSE [cth EXCEPT ![t].pc = NextPc[cth[t].pc]]
    /\ UNCHANGED <<features, hwcap, crets, cforced, notC>>

\* features |= feature: the store of the loaded value with the bit set
CFlagStore(t) ==
    /\ cth[t].pc \in DOMAIN FeatureOf
    /\ cth[t].st
    /\ features' = cth[t].tmp \cup {FeatureOf[cth[t].pc]}
    /\ cth' = [cth EXCEPT ![t].pc = NextPc[cth[t].pc], ![t].tmp = {}, ![t].st = FALSE]
    /\ UNCHANGED <<hwcap, crets, cforced, notC>>

\* return features
CReturn(t) ==
    /\ cth[t].pc = "ret"
    /\ crets' = crets \cup {features}
    /\ cth' = [cth EXCEPT ![t].pc = "idle", ![t].n = @ + 1]
    /\ UNCHANGED <<features, hwcap, cforced, notC>>

\* lc_cpu_feature_disable
lc_cpu_feature_disable ==
    /\ Cardinality(cforced \ {LC_CPU_FEATURE_UNSET}) < MaxForced
    /\ features' = {"ARM"}
    /\ cforced' = cforced \cup {features'}
    /\ UNCHANGED <<hwcap, cth, crets, notC>>

\* lc_cpu_feature_set
lc_cpu_feature_set ==
    /\ Cardinality(cforced \ {LC_CPU_FEATURE_UNSET}) < MaxForced
    /\ \E feature \in {{"ARM", "ARM_NEON"}, {"ARM", "ARM_NEON", "ARM_SHA3"}} :
          features' = feature
    /\ cforced' = cforced \cup {features'}
    /\ UNCHANGED <<hwcap, cth, crets, notC>>

\* lc_cpu_feature_enable: features = LC_CPU_FEATURE_UNSET, whatever was stored
\* before; detection starts over at the next call
lc_cpu_feature_enable ==
    /\ features' = LC_CPU_FEATURE_UNSET
    /\ cforced' = cforced \cup {features'}
    /\ UNCHANGED <<hwcap, cth, crets, notC>>

NextCpu ==
    \/ \E t \in Threads : CCall(t)
    \/ \E t \in Threads : CCheck(t)
    \/ \E t \in Threads : CBase(t)
    \/ \E t \in Threads : CFlag(t)
    \/ \E t \in Threads : CFlagStore(t)
    \/ \E t \in Threads : CReturn(t)
    \/ lc_cpu_feature_disable
    \/ lc_cpu_feature_set
    \/ lc_cpu_feature_enable

SpecCpu == InitCpu /\ [][NextCpu]_vars

\* C10: every value lc_cpu_feature_available has returned is the completely
\* detected feature set of this CPU or a value stored through the test-only
\* API.
C10_NoPartialFeatureSet ==
    \A r \in crets : r = DetectedSet(hwcap) \/ r \in cforced

-----------------------------------------------------------------------------
(* ================== ML-DSA entry points: the dispatcher ================ *)

MaxSignUpdates == 2     \* lc_dilithium_sign_update calls per operation
MaxSignOps == 2         \* signing operations per run

\* what the x86 detector can find
X86Caps == {{}, {"AVX2"}}

\* lc_cpu_feature_available on x86: the latched value, detected on first use
lc_cpu_feature_available_x86(f, hw) ==
    IF f = LC_CPU_FEATURE_UNSET
    THEN {"INTEL"} \cup (IF "AVX2" \in hw THEN {"INTEL_AVX2"} ELSE {})
    ELSE f

\* if (lc_cpu_feature_available() & LC_CPU_FEATURE_INTEL_AVX2) ..._avx2 else ..._c
mldsa_backend(f) == IF "INTEL_AVX2" \in f THEN "avx2" ELSE "c"

\* lc_dilithium_sign / lc_dilithium_sign_init: the tester runs the selected
\* back-end, LC_SELFTEST_COMPLETED returns -EOPNOTSUPP unless it passed, then
\* the selected back-end serves the call. Returns [G, impl, ret]
lc_dilithium_sign(G, f, ok) ==
    LET G1 == selftest_atomic(G, "MLDSA_SIGGEN", ok)
    IN  [G |-> G1, impl |-> mldsa_backend(f),
         ret |-> IF LC_SELFTEST_COMPLETED(G1.st, "MLDSA_SIGGEN") THEN 0
                 ELSE 0 - EOPNOTSUPP]

\* lc_dilithium_sign_update / lc_dilithium_sign_final: no gate
lc_dilithium_sign_update(f) == mldsa_backend(f)

InitDisp ==
    /\ GateIdle
    /\ kat_ok \in [AlgIds -> BOOLEAN]
    /\ \A id \in AlgIds \ {"MLDSA_SIGGEN"} : kat_ok[id]
    /\ AeadIdle
    /\ SpongeIdle
    /\ DrngIdle
    /\ features = LC_CPU_FEATURE_UNSET
    /\ hwcap \in X86Caps
    /\ cth = [t \in Threads |-> CpuThreadIdle]
    /\ crets = {}
    /\ cforced = {}
    /\ DispIdle
    /\ MemIdle

\* the first call of an operation: one-shot sign (to = "done") or sign_init
XFirst(to) ==
    /\ mld.pc = "idle"
    /\ mld.ops < MaxSignOps
    /\ LET f == lc_cpu_feature_available_x86(features, hwcap)
           R == lc_dilithium_sign([st |-> alg_status, runs |-> kat_runs], f,
                                  kat_ok["MLDSA_SIGGEN"])
       IN  /\ features' = f
           /\ alg_status' = R.G.st
           /\ kat_runs' = R.G.runs
           /\ mld' = [mld EXCEPT !.pc = IF R.ret = 0 THEN to ELSE "failed",
                                  !.sel = R.impl,
                                  !.impls = IF R.ret = 0 THEN <<R.impl>> ELSE <<>>,
                                  !.ret = R.ret, !.n = 0, !.ops = @ + 1]
    /\ UNCHANGED <<kat_ok, hwcap, cth, crets, cforced, notX>>

XSign == XFirst("done")
XSignInit == XFirst("inited")

\* a later call of the operation: sign_update or sign_final
XLater(to) ==
    /\ mld.pc = "inited"
    /\ to = "inited" => mld.n < MaxSignUpdates
    /\ LET f == lc_cpu_feature_available_x86(features, hwcap)
       IN  /\ features' = f
           /\ mld' = [mld EXCEPT !.pc = to,
                                  !.impls = Append(@, lc_dilithium_sign_update(f)),
                                  !.n = @ + 1]
    /\ UNCHANGED <<gvars, hwcap, cth, crets, cforced, notX>>

XSignUpdate == XLater("inited")
XSignFinal == XLater("done")

\* the caller starts another operation
XNext ==
    /\ mld.pc \in {"done", "failed"}
    /\ mld.ops < MaxSignOps
    /\ mld' = [mld EXCEPT !.pc = "idle"]
    /\ UNCHANGED <<gvars, cvars, notX>>

\* the test-only API, called between two entry points
XDisable ==
    /\ lc_cpu_feature_disable
    /\ UNCHANGED mld

XEnable ==
    /\ lc_cpu_feature_enable
    /\ UNCHANGED mld

NextDisp ==
    \/ XSign
    \/ XSignInit
    \/ XSignUpdate
    \/ XSignFinal
    \/ XNext
    \/ XDisable
    \/ XEnable

SpecDisp == InitDisp /\ [][NextDisp]_vars

\* C18: the calls of one signing operation (init, update, final) are all
\* served by the same back-end.
C18_OneBackendPerOperation ==
    \A i, j \in DOMAIN mld.impls : mld.impls[i] = mld.impls[j]

\* C19: when the self-test run for the selected AVX2 back-end fails, the call
\* is served, with success, by the portable C back-end.
C19_DemoteOnSelftestFailure ==
    (mld.pc # "idle" /\ mld.sel = "avx2" /\ ~kat_ok["MLDSA_SIGGEN"]) =>
        /\ mld.ret = 0
        /\ mld.impls # <<>>
        /\ mld.impls[1] = "c"


-----------------------------------------------------------------------------
(* constant-time conditional move (sidechannel_resistantce.h) *)

RECURSIVE AndByte(_, _)
AndByte(a, b) ==
    IF a = 0 \/ b = 0 THEN 0
    ELSE ((a % 2) * (b % 2)) + 2 * AndByte(a \div 2, b \div 2)

\* uint8_t negation: b = -b
NegByte(b) == (256 - b) % 256

\* cmov without the blocker term in the XOR
cmov_without_blocker(r, x, len, b, opt_blocker) ==
    [i \in 1..Len(r) |->
        IF i <= len THEN XorByte(r[i], AndByte(NegByte(b), XorByte(r[i], x[i])))
        ELSE r[i]]

\* cmov(r, x, len, b):
\*     opt_blocker = (uint8_t)optimization_blocker_int8; b = -b;
\*     r[i] ^= (b & (r[i] ^ x[i])) ^ opt_blocker;
\* opt_blocker is the value read from the program-wide blocker object
cmov(r, x, len, b, opt_blocker) ==
    [i \in 1..Len(r) |->
        IF i <= len
        THEN XorByte(r[i], XorByte(AndByte(NegByte(b), XorByte(r[i], x[i])),
                                   opt_blocker))
        ELSE r[i]]

MaxCmovLen == 2         \* bytes moved by one call
CmovBytes == {0, 1, 165, 255}
CmovBlockers == {0, 1, 255}
CmovBufs == UNION {[1..n -> CmovBytes] : n \in 0..MaxCmovLen}

InitCmov ==
    /\ GateIdle
    /\ kat_ok = [id \in AlgIds |-> TRUE]
    /\ AeadIdle
    /\ SpongeIdle
    /\ DrngIdle
    /\ CpuIdle
    /\ DispIdle
    /\ MemIdle

\* one call of cmov on buffers of equal length
CmovCall ==
    /\ cm.pc = "idle"
    /\ \E r \in CmovBufs, b \in {0, 1}, blk \in CmovBlockers :
         \E x \in {y \in CmovBufs : Len(y) = Len(r)} :
            cm' = [pc |-> "done", r0 |-> r, x |-> x, b |-> b, blocker |-> blk,
                   r |-> cmov(r, x, Len(r), b, blk)]
    /\ UNCHANGED <<heap, notM>>

NextCmov == CmovCall

SpecCmov == InitCmov /\ [][NextCmov]_vars

\* C22: after cmov(r, x, len, b) with b in {0,1}, r[i] = x[i] for all i < len
\* when b = 1 and r is unchanged when b = 0, whatever the value of the
\* optimization blocker
C22_CmovSelects ==
    cm.pc = "done" => cm.r = (IF cm.b = 1 THEN cm.x ELSE cm.r0)

\* C22 (supporting): the same selection, for a blocker that reads as zero
C22_CmovSelectsZeroBlocker ==
    (cm.pc = "done" /\ cm.blocker = 0) =>
        cm.r = (IF cm.b = 1 THEN cm.x ELSE cm.r0)

\* C22: a call that moves at least one byte under a non-zero blocker has run
C22_Witness ==
    cm.pc = "done" /\ cm.blocker # 0 /\ Len(cm.r0) > 0 /\ cm.b = 1


-----------------------------------------------------------------------------
(* the memory provider (memory_support_linux.c)

   Addresses are integers.  A block of the underlying allocator is
   [mech, base, size, fd, hdr]: the mechanism that produced it, its first
   address, its length, the descriptor behind it (-1: none), and the
   struct lc_mem_def stored at its first address (NoHdr: not written).
   heap.rel lists the releases, heap.ub says that a call had undefined
   behaviour (a read outside every block, a free of an address malloc never
   returned); no call is modelled after that. *)

LC_MEM_DEF_ALIGNED_OFFSET == 32
PageSize == 4096

RECURSIVE IsPow2(_)
IsPow2(n) == IF n = 1 THEN TRUE ELSE IF n < 1 \/ n % 2 = 1 THEN FALSE ELSE IsPow2(n \div 2)

\* posix_memalign accepts a power of two that is a multiple of sizeof(void *)
ValidAlignment(a) == IsPow2(a) /\ a % 8 = 0

Live(H) == {s \in Slots : H.blocks[s].mech # "none"}
HasSlot(H) == Live(H) # Slots
FreeSlot(H) == CHOOSE s \in Slots \ Live(H) : \A t \in Slots \ Live(H) : s <= t
FreshFd(H) == CHOOSE n \in 3..(3 + MaxBlocks) :
                 n \notin H.fds /\ \A o \in 3..(3 + MaxBlocks) : o \notin H.fds => n <= o

\* slots whose block starts at / contains an address
StartsAt(H, a) == {s \in Live(H) : H.blocks[s].base = a}
Holds(H, a) == {s \in Live(H) : H.blocks[s].base <= a
                                 /\ a < H.blocks[s].base + H.blocks[s].size}

\* posix_memalign(&ptr, alignment, full_size); k picks the address
posix_memalign(H, alignment, full_size, fail, k) ==
    IF ~ValidAlignment(alignment) THEN [H |-> H, ret |-> EINVAL, ptr |-> 0]
    ELSE IF fail THEN [H |-> H, ret |-> ENOMEM, ptr |-> 0]
    ELSE LET s == FreeSlot(H)
             base == s * PageSize + alignment * k
         IN  [H |-> [H EXCEPT !.blocks[s] =
                        [mech |-> "posix_memalign", base |-> base,
                         size |-> full_size, fd |-> 0 - 1, hdr |-> NoHdr]],
              ret |-> 0, ptr |-> base]

\* the event of one release, appended to heap.rel: the block that holds ptr
\* and what was done to return it
Release(H, ptr, by, arg, closed) ==
    LET t == Holds(H, ptr)
        blk == IF t = {} THEN NoBlock ELSE H.blocks[CHOOSE s \in t : TRUE]
    IN  [ptr |-> ptr, mech |-> blk.mech, base |-> blk.base, fd |-> blk.fd,
         by |-> by, arg |-> arg, closed |-> closed]

\* munmap(memp, size) followed by close(fd)
munmap_close(H, ptr, memp, fd) ==
    LET hit == {s \in StartsAt(H, memp) : H.blocks[s].mech = "memfd"}
    IN  [H EXCEPT !.blocks = [s \in Slots |-> IF s \in hit THEN NoBlock ELSE @[s]],
                  !.fds = @ \ {fd},
                  !.rel = Append(@, Release(H, ptr, "munmap", memp, fd)),
                  !.ub = @ \/ hit = {}]

\* free(memp): defined only for an address posix_memalign returned
free(H, ptr, memp) ==
    LET hit == {s \in StartsAt(H, memp) : H.blocks[s].mech = "posix_memalign"}
    IN  [H EXCEPT !.blocks = [s \in Slots |-> IF s \in hit THEN NoBlock ELSE @[s]],
                  !.rel = Append(@, Release(H, ptr, "free", memp, 0 - 1)),
                  !.ub = @ \/ hit = {}]

\* lc_free_internal(ptr, secure): the header is read at ptr - 32; junk is what
\* that read delivers when no header was written there
lc_free_internal(H, ptr, secure, junk) ==
    IF ptr = 0 THEN H
    ELSE LET memp == ptr - LC_MEM_DEF_ALIGNED_OFFSET
             own == {s \in StartsAt(H, memp) : H.blocks[s].hdr # NoHdr}
             hdr == IF own = {} THEN junk ELSE H.blocks[CHOOSE s \in own : TRUE].hdr
             H1 == [H EXCEPT !.ub = @ \/ own = {}]
         IN  IF H1.have_memfd /\ hdr.fd >= 0
             THEN munmap_close(H1, ptr, memp, hdr.fd)
             ELSE free(H1, ptr, memp)

lc_free(H, ptr, junk) == lc_free_internal(H, ptr, 0, junk)

\* alloc_aligned_secure_internal(memptr, alignment, size, secure)
\*   gen: "ok", or the step that fails: "posix_memalign", "mlock_EPERM"
\*        (tolerated), "mlock_ENOMEM"
alloc_aligned_secure_internal(H, alignment, size, secure, gen, k, junk) ==
    LET full_size == LC_MEM_DEF_ALIGNED_OFFSET + size
        pm == posix_memalign(H, alignment, full_size, gen = "posix_memalign", k)
    IN  IF pm.ret # 0
        THEN [H |-> pm.H, ret |-> pm.ret, ptr |-> 0, base |-> 0]
        ELSE IF secure = 1 /\ gen = "mlock_ENOMEM"
        THEN [H |-> lc_free(pm.H, pm.ptr, junk), ret |-> 0 - ENOMEM, ptr |-> 0,
              base |-> 0]
        ELSE LET s == CHOOSE t \in StartsAt(pm.H, pm.ptr) : TRUE
             IN  [H |-> [pm.H EXCEPT !.blocks[s].hdr =
                            [size |-> full_size, fd |-> 0 - 1]],
                  ret |-> 0, ptr |-> pm.ptr + LC_MEM_DEF_ALIGNED_OFFSET,
                  base |-> pm.ptr]

lc_alloc_aligned(H, alignment, size, gen, k, junk) ==
    alloc_aligned_secure_internal(H, alignment, size, 0, gen, k, junk)

\* lc_alloc_aligned_secure(memptr, alignment, size)
\*   sec: "ok", or the step of the secret mapping that fails: "memfd_secret",
\*        "ftruncate", "mmap"
lc_alloc_aligned_secure(H, alignment, size, sec, gen, k, junk) ==
    LET full_size == LC_MEM_DEF_ALIGNED_OFFSET + size
    IN  IF ~H.have_memfd
        THEN alloc_aligned_secure_internal(H, alignment, size, 1, gen, k, junk)
        ELSE IF sec = "ok"
        THEN LET s == FreeSlot(H)
                 fd == FreshFd(H)
                 base == s * PageSize
             IN  [H |-> [H EXCEPT !.blocks[s] =
                            [mech |-> "memfd", base |-> base, size |-> full_size,
                             fd |-> fd,
                             hdr |-> [size |-> full_size, fd |-> fd]],
                                  !.fds = @ \cup {fd}],
                  ret |-> 0, ptr |-> base + LC_MEM_DEF_ALIGNED_OFFSET,
                  base |-> base]
        \* err: the descriptor, if one was opened, is closed again
        ELSE alloc_aligned_secure_internal([H EXCEPT !.have_memfd = FALSE],
                                           alignment, size, 1, gen, k, junk)

lc_alloc_high_aligned(H, alignment, size, gen, k, junk) ==
    lc_alloc_aligned(H, alignment, size, gen, k, junk)

\* the heap constructors: a null out-pointer first (KMAC, ChaCha20), then the
\* provider; the instance pointer is stored on the path that returns 0
lc_kmac256_drng_alloc(H, null, alignment, size, sec, gen, k, junk) ==
    IF null THEN [H |-> H, ret |-> 0 - EINVAL, stored |-> FALSE, ptr |-> 0]
    ELSE LET a == lc_alloc_aligned_secure(H, alignment, size, sec, gen, k, junk)
         IN  IF a.ret # 0
             THEN [H |-> a.H, ret |-> 0 - a.ret, stored |-> FALSE, ptr |-> 0]
             ELSE [H |-> a.H, ret |-> 0, stored |-> TRUE, ptr |-> a.ptr]

lc_cc20_drng_alloc(H, null, alignment, size, sec, gen, k, junk) ==
    IF null THEN [H |-> H, ret |-> 0 - EINVAL, stored |-> FALSE, ptr |-> 0]
    ELSE LET a == lc_alloc_aligned_secure(H, alignment, size, sec, gen, k, junk)
         IN  IF a.ret # 0
             THEN [H |-> a.H, ret |-> 0 - a.ret, stored |-> FALSE, ptr |-> 0]
             ELSE [H |-> a.H, ret |-> 0, stored |-> TRUE, ptr |-> a.ptr]

lc_hc_alloc(H, alignment, size, gen, k, junk) ==
    LET a == lc_alloc_aligned(H, alignment, size, gen, k, junk)
    IN  IF a.ret # 0
        THEN [H |-> a.H, ret |-> 0 - a.ret, stored |-> FALSE, ptr |-> 0]
        ELSE [H |-> a.H, ret |-> 0, stored |-> TRUE, ptr |-> a.ptr]

MaxHeapOps == 3         \* provider calls per run

Alignments == {3, 8, 32, 64}
AllocSizes == {16}
SecOutcomes == {"ok", "memfd_secret", "ftruncate", "mmap"}
GenOutcomes == {"ok", "posix_memalign", "mlock_EPERM", "mlock_ENOMEM"}
AddrPicks == {0, 1}
\* what a read of a header that was never written can deliver
JunkHeaders == {[size |-> 0, fd |-> 0 - 1], [size |-> 48, fd |-> 3]}
AllocFns == {"lc_alloc_aligned", "lc_alloc_aligned_secure", "lc_alloc_high_aligned"}
Ctors == {"lc_kmac256_drng_alloc", "lc_cc20_drng_alloc", "lc_hc_alloc"}

InitAlloc ==
    /\ GateIdle
    /\ kat_ok = [id \in AlgIds |-> TRUE]
    /\ AeadIdle
    /\ SpongeIdle
    /\ DrngIdle
    /\ CpuIdle
    /\ DispIdle
    /\ cm = CmIdle
    \* lc_alloc_have_memfd_secret: 1 or 0, as the build has the system call
    /\ heap \in {[HeapIdle EXCEPT !.have_memfd = v] : v \in BOOLEAN}

CanCall == heap.ops < MaxHeapOps /\ ~heap.ub

Done(H, last) == heap' = [H EXCEPT !.last = last, !.ops = heap.ops + 1]

\* a caller asks the provider for memory
MAlloc ==
    /\ CanCall
    /\ HasSlot(heap)
    /\ \E fn \in AllocFns, al \in Alignments, size \in AllocSizes,
          sec \in SecOutcomes, gen \in GenOutcomes, k \in AddrPicks,
          junk \in JunkHeaders :
         LET a == CASE fn = "lc_alloc_aligned" ->
                         lc_alloc_aligned(heap, al, size, gen, k, junk)
                    [] fn = "lc_alloc_aligned_secure" ->
                         lc_alloc_aligned_secure(heap, al, size, sec, gen, k, junk)
                    [] OTHER ->
                         lc_alloc_high_aligned(heap, al, size, gen, k, junk)
         IN  Done(a.H, [fn |-> fn, ret |-> a.ret, ptr |-> a.ptr, alignment |-> al,
                        base |-> a.base, stored |-> a.ret = 0, ctor |-> "none"])
    /\ UNCHANGED <<cm, notM>>

\* a caller constructs an instance on the heap
MConstruct ==
    /\ CanCall
    /\ HasSlot(heap)
    /\ \E c \in Ctors, null \in BOOLEAN, al \in {a \in Alignments : ValidAlignment(a)},
          size \in AllocSizes, sec \in SecOutcomes, gen \in GenOutcomes,
          k \in AddrPicks, junk \in JunkHeaders :
         LET a == CASE c = "lc_kmac256_drng_alloc" ->
                         lc_kmac256_drng_alloc(heap, null, al, size, sec, gen, k, junk)
                    [] c = "lc_cc20_drng_alloc" ->
                         lc_cc20_drng_alloc(heap, null, al, size, sec, gen, k, junk)
                    [] OTHER -> lc_hc_alloc(heap, al, size, gen, k, junk)
         IN  Done(a.H, [fn |-> "none", ret |-> a.ret, ptr |-> a.ptr,
                        alignment |-> al, base |-> 0, stored |-> a.stored,
                        ctor |-> c])
    /\ UNCHANGED <<cm, notM>>

\* a caller gives back a pointer the provider returned to it, or NULL
MFree ==
    /\ CanCall
    /\ \E ptr \in {0} \cup {heap.blocks[s].base + LC_MEM_DEF_ALIGNED_OFFSET :
                             s \in {t \in Live(heap) : heap.blocks[t].hdr # NoHdr}},
          junk \in JunkHeaders :
         Done(lc_free(heap, ptr, junk),
              [NoHeapCall EXCEPT !.fn = "lc_free", !.ptr = ptr])
    /\ UNCHANGED <<cm, notM>>

NextAlloc ==
    \/ MAlloc
    \/ MConstruct
    \/ MFree

SpecAlloc == InitAlloc /\ [][NextAlloc]_vars

\* C23: a successful lc_alloc_aligned / lc_alloc_aligned_secure /
\* lc_alloc_high_aligned returns a pointer one 32-byte header past the start of
\* the underlying allocation, and that pointer is a multiple of the requested
\* alignment
C23_PointerPastHeaderAndAligned ==
    (heap.last.fn \in AllocFns /\ heap.last.ret = 0) =>
        /\ heap.last.ptr = heap.last.base + LC_MEM_DEF_ALIGNED_OFFSET
        /\ heap.last.ptr % heap.last.alignment = 0

\* C23 (supporting): the pointer is one header past the start of the allocation
C23_PointerPastHeader ==
    (heap.last.fn \in AllocFns /\ heap.last.ret = 0) =>
        /\ heap.last.ptr = heap.last.base + LC_MEM_DEF_ALIGNED_OFFSET
        /\ StartsAt(heap, heap.last.base) # {}

\* C24: a heap constructor returns 0 when it stored an instance pointer and a
\* negative code when it did not, whichever step of the provider failed
C24_ConstructorReturnCodes ==
    heap.last.ctor # "none" =>
        IF heap.last.stored THEN heap.last.ret = 0 ELSE heap.last.ret < 0

\* C29: a block released through lc_free goes back the way it came: a secret
\* mapping is unmapped at its start and its descriptor closed, a
\* posix_memalign block is passed to free with the address posix_memalign gave
C29_ReleasedByProducingMechanism ==
    \A i \in 1..Len(heap.rel) :
        LET v == heap.rel[i]
        IN  /\ v.mech = "memfd" =>
                 v.by = "munmap" /\ v.arg = v.base /\ v.closed = v.fd
            /\ v.mech = "posix_memalign" => v.by = "free" /\ v.arg = v.base
            /\ v.mech # "none"

=============================================================================
